---------------------------- MODULE Spec2Model ----------------------------
(***************************************************************************)
(* A model of the Sieve engine parts found in this repository:             *)
(*   - the vacation command: tag validation, code generation, execution,   *)
(*     the vacation action's duplicate/conflict hooks and its commit;      *)
(*   - the duplicate extension: ext_duplicate_check and the                *)
(*     duplicate_mark action's finish hook;                                *)
(*   - the address test's execution.                                       *)
(* Strings are sequences of one-character strings so that concatenation,   *)
(* prefixes and case folding are computed the way the C code computes them.*)
(***************************************************************************)
EXTENDS Integers, Sequences, FiniteSets, TLC

(***************************************************************************)
(* Strings                                                                 *)
(***************************************************************************)

\* A NULL pointer (const char *, string_t *, array, function pointer).
NULL == <<"NULL">>

\* A NULL string-list pointer (const char *const *, coded stringlist).
NULL_LIST == << <<"NULL">> >>

UpperChars == <<"A","B","C","D","E","F","G","H","I","J","K","L","M",
                "N","O","P","Q","R","S","T","U","V","W","X","Y","Z">>
LowerChars == <<"a","b","c","d","e","f","g","h","i","j","k","l","m",
                "n","o","p","q","r","s","t","u","v","w","x","y","z">>

\* i_tolower() on one character.
i_tolower(c) ==
    IF \E i \in 1..Len(UpperChars) : UpperChars[i] = c
    THEN LowerChars[CHOOSE i \in 1..Len(UpperChars) : UpperChars[i] = c]
    ELSE c

\* A string with every character folded to lower case.
str_lcase(s) == [i \in 1..Len(s) |-> i_tolower(s[i])]

\* strcmp(a, b) == 0
strcmp_eq(a, b) == a = b

\* strcasecmp(a, b) == 0
strcasecmp_eq(a, b) == str_lcase(a) = str_lcase(b)

\* strncmp(a, p, Len(p)) == 0 : a starts with p (bytes compared verbatim).
strncmp_eq(a, p) == Len(a) >= Len(p) /\ SubSeq(a, 1, Len(p)) = p

\* strncasecmp(a, p, Len(p)) == 0 : a starts with p, ignoring case.
strncasecmp_eq(a, p) ==
    Len(a) >= Len(p) /\ str_lcase(SubSeq(a, 1, Len(p))) = str_lcase(p)

\* strstr(a, p) != NULL : p occurs in a.
strstr_found(a, p) ==
    \E i \in 1..(Len(a) - Len(p) + 1) : SubSeq(a, i, i + Len(p) - 1) = p


(***************************************************************************)
(* String literals of the program and of the modelled inputs               *)
(***************************************************************************)

\* sizeof(dupl_hash): MD5 is modelled as the (collision free) identity on
\* the bytes fed to md5_update, so a hash is the concatenation of its inputs.
md5(bytes) == bytes

str_empty == << >>
str_no == <<"n","o">>
str_junk == <<"j","u","n","k">>
str_bulk == <<"b","u","l","k">>
str_list == <<"l","i","s","t">>
str_at == <<"@">>
str_mailer_daemon == <<"M","A","I","L","E","R","-","D","A","E","M","O","N">>
str_listserv == <<"L","I","S","T","S","E","R","V">>
str_majordomo == <<"m","a","j","o","r","d","o","m","o">>
str_request_at == <<"-","r","e","q","u","e","s","t","@">>
str_owner_dash == <<"o","w","n","e","r","-">>
str_auto_prefix == <<"A","u","t","o",":"," ">>
str_automated_reply == <<"A","u","t","o","m","a","t","e","d"," ","r","e","p","l","y">>
str_auto_replied == <<"a","u","t","o","-","r","e","p","l","i","e","d">>

handle_empty_subject ==
    <<"<","d","e","f","a","u","l","t","-","s","u","b","j","e","c","t",">">>
handle_empty_from == <<"<","d","e","f","a","u","l","t","-","f","r","o","m",">">>
handle_mime_enabled == <<"<","M","I","M","E",">">>
handle_mime_disabled == <<"<","N","O","-","M","I","M","E",">">>

\* Addresses used as inputs.
addr_user == <<"u","@","d">>
addr_alias == <<"v","@","d">>
addr_sender == <<"a","@","d">>
addr_sender2 == <<"b","@","d">>
addr_system == <<"o","w","n","e","r","-","l","@","d">>
addr_invalid == <<"x">>

handle_h == <<"h">>
handle_g == <<"g">>
reason_r == <<"r">>
subject_s == <<"S">>

\* Header lists known to be associated with mailing lists.
list_headers ==
    <<"list-id", "list-owner", "list-subscribe", "list-post",
      "list-unsubscribe", "list-help", "list-archive">>

\* Headers that are searched for the user's own mail address(es).
my_address_headers ==
    <<"to", "cc", "bcc", "resent-to", "resent-cc", "resent-bcc">>

\* enum cmd_vacation_optional
OPT_END == 0
OPT_DAYS == 1
OPT_SUBJECT == 2
OPT_FROM == 3
OPT_ADDRESSES == 4
OPT_MIME == 5

\* sieve_number_t days = 7 : the default when no days operand is present.
DEFAULT_DAYS == 7

\* 24 * 60 * 60 : the seconds of one day, as the commit computes the expiry.
DaySecs == 24 * 60 * 60

\* Execution status codes.
SIEVE_EXEC_OK == "OK"
SIEVE_EXEC_FAILURE == "FAILURE"
SIEVE_EXEC_TEMP_FAILURE == "TEMP_FAILURE"
SIEVE_EXEC_BIN_CORRUPT == "BIN_CORRUPT"
SIEVE_EXEC_KEEP_FAILED == "KEEP_FAILED"


(***************************************************************************)
(* Vacation command: AST arguments, tag validation, handle construction    *)
(***************************************************************************)

\* AST arguments (tagged variant).
arg_tag(id) == [type |-> "tag", id |-> id, opt |-> 0]
arg_number(n) == [type |-> "number", num |-> n, opt |-> 0]
arg_string(s) == [type |-> "string", str |-> s, opt |-> 0]
arg_string_list(l) == [type |-> "string_list", lst |-> l, opt |-> 0]

\* The tags cmd_vacation_registered registers, with their optional codes.
vacation_tag_code(id) ==
    CASE id = "days" -> OPT_DAYS
      [] id = "subject" -> OPT_SUBJECT
      [] id = "from" -> OPT_FROM
      [] id = "addresses" -> OPT_ADDRESSES
      [] id = "mime" -> OPT_MIME
      [] id = "handle" -> 0

vacation_tags == {"days", "subject", "from", "addresses", "mime", "handle"}

\* sieve_ast_arguments_detach(arg, 1): the list without element i.
arguments_detach(args, i) ==
    SubSeq(args, 1, i - 1) \o SubSeq(args, i + 1, Len(args))

\* sieve_validate_tag_parameter: the parameter exists and has the type asked.
sieve_validate_tag_parameter(args, i, type) ==
    /\ i <= Len(args)
    /\ \/ args[i].type = type
       \/ type = "string_list" /\ args[i].type = "string"

\* sieve_address_validate / sieve_address_normalize succeed on mailbox@domain.
sieve_address_valid(s) ==
    \E i \in 2..(Len(s) - 1) :
        /\ s[i] = "@"
        /\ \A j \in 1..Len(s) : j # i => s[j] # "@"

\* struct cmd_vacation_context_data after cmd_vacation_pre_validate.
cmd_vacation_context_data_new ==
    [from |-> NULL, subject |-> NULL, mime |-> FALSE, handle |-> NULL]

\* A validation state: the argument list, the cursor *arg, cmd->data and the
\* verdict so far.
vstate(args, i, data, ok) == [args |-> args, i |-> i, data |-> data, ok |-> ok]

cmd_vacation_validate_number_tag(st) ==
    LET args1 == arguments_detach(st.args, st.i) IN
    IF ~sieve_validate_tag_parameter(args1, st.i, "number")
    THEN vstate(args1, st.i, st.data, FALSE)
    ELSE LET n == IF args1[st.i].num = 0 THEN 1 ELSE args1[st.i].num IN
         vstate([args1 EXCEPT ![st.i].num = n, ![st.i].opt = OPT_DAYS],
                st.i + 1, st.data, TRUE)

cmd_vacation_validate_string_tag(st) ==
    LET tag == st.args[st.i]
        args1 == arguments_detach(st.args, st.i) IN
    IF ~sieve_validate_tag_parameter(args1, st.i, "string")
    THEN vstate(args1, st.i, st.data, FALSE)
    ELSE LET val == args1[st.i].str IN
         CASE tag.id = "from" ->
                IF ~sieve_address_valid(val)
                THEN vstate(args1, st.i, st.data, FALSE)
                ELSE vstate([args1 EXCEPT ![st.i].opt = OPT_FROM], st.i + 1,
                            [st.data EXCEPT !.from = val], TRUE)
           [] tag.id = "subject" ->
                vstate([args1 EXCEPT ![st.i].opt = OPT_SUBJECT], st.i + 1,
                       [st.data EXCEPT !.subject = val], TRUE)
           [] tag.id = "handle" ->
                vstate(arguments_detach(args1, st.i), st.i,
                       [st.data EXCEPT !.handle = val], TRUE)
           [] OTHER -> vstate(args1, st.i, st.data, TRUE)

cmd_vacation_validate_stringlist_tag(st) ==
    LET args1 == arguments_detach(st.args, st.i) IN
    IF ~sieve_validate_tag_parameter(args1, st.i, "string_list")
    THEN vstate(args1, st.i, st.data, FALSE)
    ELSE vstate([args1 EXCEPT ![st.i].opt = OPT_ADDRESSES], st.i + 1,
                st.data, TRUE)

cmd_vacation_validate_mime_tag(st) ==
    vstate([st.args EXCEPT ![st.i].opt = OPT_MIME], st.i + 1,
           [st.data EXCEPT !.mime = TRUE], TRUE)

\* The validator's tag loop: while the next argument is a tag registered for
\* the command, call its tag validator; otherwise stop.
RECURSIVE validate_tag_loop(_)
validate_tag_loop(st) ==
    IF ~st.ok \/ st.i > Len(st.args) THEN st
    ELSE LET a == st.args[st.i] IN
         IF a.type # "tag" \/ a.id \notin vacation_tags THEN st
         ELSE validate_tag_loop(
                CASE a.id = "days" -> cmd_vacation_validate_number_tag(st)
                  [] a.id \in {"subject", "from", "handle"} ->
                        cmd_vacation_validate_string_tag(st)
                  [] a.id = "addresses" ->
                        cmd_vacation_validate_stringlist_tag(st)
                  [] a.id = "mime" -> cmd_vacation_validate_mime_tag(st))

\* A cmd_vacation_validate that appends the :from value before the :subject
\* value when it constructs the handle.
cmd_vacation_validate_from_first(st) ==
    IF ~(st.i = Len(st.args) /\ st.args[st.i].type = "string")
    THEN [st EXCEPT !.ok = FALSE]
    ELSE IF st.data.handle # NULL THEN st
    ELSE LET reason == st.args[st.i].str
             d == st.data
             handle ==
                reason
                \o (IF d.from # NULL THEN d.from ELSE handle_empty_from)
                \o (IF d.subject # NULL THEN d.subject ELSE handle_empty_subject)
                \o (IF d.mime THEN handle_mime_enabled ELSE handle_mime_disabled)
         IN [st EXCEPT !.data.handle = handle]

\* cmd_vacation_validate: the reason is the one positional argument, a
\* string; the handle is constructed when :handle did not set it.
cmd_vacation_validate(st) ==
    IF ~(st.i = Len(st.args) /\ st.args[st.i].type = "string")
    THEN [st EXCEPT !.ok = FALSE]
    ELSE IF st.data.handle # NULL THEN st
    ELSE LET reason == st.args[st.i].str
             d == st.data
             handle ==
                reason
                \o (IF d.subject # NULL THEN d.subject ELSE handle_empty_subject)
                \o (IF d.from # NULL THEN d.from ELSE handle_empty_from)
                \o (IF d.mime THEN handle_mime_enabled ELSE handle_mime_disabled)
         IN [st EXCEPT !.data.handle = handle]

\* Validation of one vacation command: pre_validate, tag loop, validate.
vacation_validated(args) ==
    LET st == validate_tag_loop(vstate(args, 1, cmd_vacation_context_data_new, TRUE))
    IN IF st.ok THEN cmd_vacation_validate(st) ELSE st


(***************************************************************************)
(* Code generation and the operands of the binary                          *)
(***************************************************************************)

\* Operands as they lie in the binary.
opr_source_line(n) == [t |-> "line", v |-> n]
opr_optional_marker == [t |-> "optional", v |-> 0]
opr_optional_code(c) == [t |-> "optcode", v |-> c]
opr_number(n) == [t |-> "number", v |-> n]
opr_string(s) == [t |-> "string", v |-> s]
opr_stringlist(l) == [t |-> "stringlist", v |-> l]

\* The operand an activated argument is emitted as (a tag emits none).
argument_operand(a) ==
    CASE a.type = "number" -> << opr_number(a.num) >>
      [] a.type = "string" ->
            IF a.opt = OPT_ADDRESSES THEN << opr_stringlist(<<a.str>>) >>
            ELSE << opr_string(a.str) >>
      [] a.type = "string_list" -> << opr_stringlist(a.lst) >>
      [] a.type = "tag" -> << >>

\* sieve_generate_arguments: the optional arguments as (code, operand)
\* pairs behind the optional marker, code 0 to end them, then the
\* positional arguments in order.
RECURSIVE generate_arguments(_, _, _)
generate_arguments(args, i, in_optional) ==
    IF i > Len(args) THEN << >>
    ELSE LET a == args[i] IN
         IF a.opt # 0
         THEN (IF in_optional THEN << >> ELSE << opr_optional_marker >>)
              \o << opr_optional_code(a.opt) >> \o argument_operand(a)
              \o generate_arguments(args, i + 1, TRUE)
         ELSE (IF in_optional THEN << opr_optional_code(OPT_END) >> ELSE << >>)
              \o argument_operand(a)
              \o generate_arguments(args, i + 1, FALSE)

\* A generator that emits the handle before the arguments.
cmd_vacation_generate_handle_first(line, st) ==
    << opr_source_line(line) >>
    \o << opr_string(st.data.handle) >>
    \o generate_arguments(st.args, 1, FALSE)

\* cmd_vacation_generate: source line, arguments, then the handle.  The
\* opcode itself is consumed by the interpreter's dispatch.
cmd_vacation_generate(line, st) ==
    << opr_source_line(line) >>
    \o generate_arguments(st.args, 1, FALSE)
    \o << opr_string(st.data.handle) >>

(***************************************************************************)
(* Reading operands                                                        *)
(***************************************************************************)

\* An operand of kind t lies at address pos.
operand_is(code, pos, t) == pos <= Len(code) /\ code[pos].t = t

\* The operands read so far by ext_vacation_operation_execute.
vac_operands_init ==
    [days |-> DEFAULT_DAYS, subject |-> NULL, from |-> NULL,
     addresses |-> NULL_LIST, mime |-> FALSE]

rstate(ok, pos, o) == [ok |-> ok, pos |-> pos, o |-> o]

\* The OPT_DAYS case of the optional-operand loop without "if days == 0".
vacation_read_days_noclamp(code, pos, o) ==
    IF ~operand_is(code, pos, "number") THEN rstate(FALSE, pos, o)
    ELSE rstate(TRUE, pos + 1, [o EXCEPT !.days = code[pos].v])

\* The OPT_DAYS case: read the number, enforce days > 0.
vacation_read_days(code, pos, o) ==
    IF ~operand_is(code, pos, "number") THEN rstate(FALSE, pos, o)
    ELSE rstate(TRUE, pos + 1,
                [o EXCEPT !.days = IF code[pos].v = 0 THEN 1 ELSE code[pos].v])

\* A default case that takes an unknown optional code for the end of the
\* optional operands.
vacation_unknown_optional_ends(code, pos, o) == rstate(TRUE, pos, o)

\* The default case of the switch: an unknown optional code.
vacation_unknown_optional(code, pos, o) == rstate(FALSE, pos, o)

\* while ( opt_code != 0 ) { read code; switch ( opt_code ) ... }
RECURSIVE vacation_read_optionals(_, _, _)
vacation_read_optionals(code, pos, o) ==
    IF ~operand_is(code, pos, "optcode") THEN rstate(FALSE, pos, o)
    ELSE LET c == code[pos].v
             p == pos + 1 IN
         CASE c = OPT_END -> rstate(TRUE, p, o)
           [] c = OPT_DAYS ->
                LET r == vacation_read_days(code, p, o) IN
                IF r.ok THEN vacation_read_optionals(code, r.pos, r.o) ELSE r
           [] c = OPT_SUBJECT ->
                IF ~operand_is(code, p, "string") THEN rstate(FALSE, p, o)
                ELSE vacation_read_optionals(code, p + 1,
                        [o EXCEPT !.subject = code[p].v])
           [] c = OPT_FROM ->
                IF ~operand_is(code, p, "string") THEN rstate(FALSE, p, o)
                ELSE vacation_read_optionals(code, p + 1,
                        [o EXCEPT !.from = code[p].v])
           [] c = OPT_ADDRESSES ->
                IF ~operand_is(code, p, "stringlist") THEN rstate(FALSE, p, o)
                ELSE vacation_read_optionals(code, p + 1,
                        [o EXCEPT !.addresses = code[p].v])
           [] c = OPT_MIME ->
                vacation_read_optionals(code, p, [o EXCEPT !.mime = TRUE])
           [] OTHER -> vacation_unknown_optional(code, p, o)


\* What dumping yields: whether it succeeded, the address it stopped at and
\* the lines it wrote, each a label and the operand dumped under it.
dump_out(ok, pos, lines) == [ok |-> ok, pos |-> pos, lines |-> lines]

dump_line(label, code, pos) == << [label |-> label, opr |-> code[pos]] >>

\* The optional-operand loop of ext_vacation_operation_dump.
RECURSIVE vacation_dump_optionals(_, _, _)
vacation_dump_optionals(code, pos, lines) ==
    IF ~operand_is(code, pos, "optcode") THEN dump_out(FALSE, pos, lines)
    ELSE LET c == code[pos].v
             p == pos + 1 IN
         CASE c = OPT_END -> dump_out(TRUE, p, lines)
           [] c = OPT_DAYS ->
                IF ~operand_is(code, p, "number") THEN dump_out(FALSE, p, lines)
                ELSE vacation_dump_optionals(code, p + 1,
                        lines \o dump_line("days", code, p))
           [] c = OPT_SUBJECT ->
                IF ~operand_is(code, p, "string") THEN dump_out(FALSE, p, lines)
                ELSE vacation_dump_optionals(code, p + 1,
                        lines \o dump_line("subject", code, p))
           [] c = OPT_FROM ->
                IF ~operand_is(code, p, "string") THEN dump_out(FALSE, p, lines)
                ELSE vacation_dump_optionals(code, p + 1,
                        lines \o dump_line("from", code, p))
           [] c = OPT_ADDRESSES ->
                IF ~operand_is(code, p, "stringlist")
                THEN dump_out(FALSE, p, lines)
                ELSE vacation_dump_optionals(code, p + 1,
                        lines \o dump_line("addresses", code, p))
           [] c = OPT_MIME ->
                vacation_dump_optionals(code, p,
                    lines \o dump_line("mime", code, pos))
           [] OTHER -> dump_out(FALSE, p, lines)

\* ext_vacation_operation_dump: source line, optional operands, reason and
\* handle.
ext_vacation_operation_dump(code) ==
    IF ~operand_is(code, 1, "line") THEN dump_out(FALSE, 1, << >>)
    ELSE
    LET opts == IF operand_is(code, 2, "optional")
                THEN vacation_dump_optionals(code, 3, dump_line("line", code, 1))
                ELSE dump_out(TRUE, 2, dump_line("line", code, 1))
    IN
    IF ~opts.ok THEN opts
    ELSE IF ~operand_is(code, opts.pos, "string")
    THEN dump_out(FALSE, opts.pos, opts.lines)
    ELSE IF ~operand_is(code, opts.pos + 1, "string")
    THEN dump_out(FALSE, opts.pos + 1,
                  opts.lines \o dump_line("reason", code, opts.pos))
    ELSE dump_out(TRUE, opts.pos + 2,
                  opts.lines \o dump_line("reason", code, opts.pos)
                             \o dump_line("handle", code, opts.pos + 1))

(***************************************************************************)
(* The result list and the vacation action's runtime verification          *)
(***************************************************************************)

\* const struct sieve_action act_vacation: its flags field.
act_vacation_flags == {"SENDS_RESPONSE"}

\* The flags of the action definitions that occur in a result.  "reject"
\* stands for any other response-sending action, "fileinto" for any action
\* that sends no response.
action_flags(def) ==
    CASE def = "vacation" -> act_vacation_flags
      [] def = "reject" -> {"SENDS_RESPONSE"}
      [] OTHER -> {}

\* A runtime error reported at `at`, whose text names `other`.
runtime_error(kind, at, other) == [kind |-> kind, at |-> at, other |-> other]

hook(ret, errors) == [ret |-> ret, errors |-> errors]

\* act_vacation_check_duplicate deciding by the contexts instead.
act_vacation_check_duplicate_ctx(act, act_other) ==
    IF act.ctx = act_other.ctx THEN hook(1, << >>)
    ELSE hook(-1, << runtime_error("duplicate", act.location, act_other.location) >>)

\* act_vacation_check_duplicate, with the executed test left out.
act_vacation_check_duplicate_noexec(act, act_other) ==
    hook(-1, << runtime_error("duplicate", act.location, act_other.location) >>)

act_vacation_check_duplicate(act, act_other) ==
    IF ~act_other.executed
    THEN hook(-1, << runtime_error("duplicate", act.location, act_other.location) >>)
    ELSE hook(1, << >>)

\* act_vacation_check_conflict, blind to actions of a preceding script.
act_vacation_check_conflict_noexec(act, act_other) ==
    IF "SENDS_RESPONSE" \in action_flags(act_other.def)
    THEN hook(-1, << runtime_error("conflict", act.location, act_other.location) >>)
    ELSE hook(0, << >>)

act_vacation_check_conflict(act, act_other) ==
    IF "SENDS_RESPONSE" \in action_flags(act_other.def)
    THEN IF ~act_other.executed
         THEN hook(-1, << runtime_error("conflict", act.location, act_other.location) >>)
         ELSE hook(1, << >>)
    ELSE hook(0, << >>)

\* The check_conflict hook of the other response-sending action: actions
\* carrying SendsResponse conflict pairwise.
act_reject_check_conflict(act, act_other) ==
    IF "SENDS_RESPONSE" \in action_flags(act_other.def)
    THEN IF ~act_other.executed
         THEN hook(-1, << runtime_error("conflict", act.location, act_other.location) >>)
         ELSE hook(1, << >>)
    ELSE hook(0, << >>)

\* The check_duplicate hook of the other response-sending action: only one
\* response-producing action per run.
act_reject_check_duplicate(act, act_other) ==
    IF ~act_other.executed
    THEN hook(-1, << runtime_error("duplicate", act.location, act_other.location) >>)
    ELSE hook(1, << >>)

check_duplicate(def, act, act_other) ==
    CASE def = "vacation" -> act_vacation_check_duplicate(act, act_other)
      [] def = "reject" -> act_reject_check_duplicate(act, act_other)
      [] OTHER -> hook(0, << >>)

check_conflict(def, act, act_other) ==
    CASE def = "vacation" -> act_vacation_check_conflict(act, act_other)
      [] def = "reject" -> act_reject_check_conflict(act, act_other)
      [] OTHER -> hook(0, << >>)

\* The verdict of the composition rules for the new action against the
\* existing entries i..Len(res): the first non-zero hook answer, else 0.
RECURSIVE result_check_action(_, _, _)
result_check_action(res, act, i) ==
    IF i > Len(res) THEN hook(0, << >>)
    ELSE LET old == res[i] IN
         IF old.def = act.def
         THEN LET d == check_duplicate(act.def, act, old) IN
              IF d.ret # 0 THEN d ELSE result_check_action(res, act, i + 1)
         ELSE LET c1 == check_conflict(act.def, act, old) IN
              IF c1.ret # 0 THEN c1
              ELSE LET c2 == check_conflict(old.def, old, act) IN
                   IF c2.ret # 0 THEN c2
                   ELSE result_check_action(res, act, i + 1)

\* sieve_result_add_action: < 0 on a duplicate/conflict error, 1 when the new
\* action is dropped without error, 0 when it was appended.
sieve_result_add_action(res, act) ==
    LET v == result_check_action(res, act, 1) IN
    [ret |-> v.ret, errors |-> v.errors,
     result |-> IF v.ret = 0 THEN Append(res, act) ELSE res]

action_entry(def, location, ctx) ==
    [def |-> def, location |-> location, executed |-> FALSE, ctx |-> ctx]

(***************************************************************************)
(* Execution of the VACATION operation                                     *)
(***************************************************************************)

\* What executing one operation yields: the return code, the result list,
\* the runtime errors reported, the action built and what
\* sieve_result_add_action answered for it.
exec_out(ret, res, errors, act, add) ==
    [ret |-> ret, result |-> res, errors |-> errors, act |-> act, add |-> add]

\* No action was built and sieve_result_add_action was not called.
no_action == [def |-> "none"]

\* struct act_vacation_context built from the operands.
act_vacation_context(o, reason, handle) ==
    [reason |-> reason, days |-> o.days, subject |-> o.subject,
     handle |-> handle, mime |-> o.mime, from |-> o.from,
     from_normalized |->
        IF o.from # NULL /\ sieve_address_valid(o.from) THEN o.from ELSE NULL,
     addresses |-> o.addresses]

ext_vacation_operation_execute(code, res) ==
    IF ~operand_is(code, 1, "line")
    THEN exec_out(SIEVE_EXEC_BIN_CORRUPT, res, << >>, no_action, 0)
    ELSE
    LET source_line == code[1].v
        opts == IF operand_is(code, 2, "optional")
                THEN vacation_read_optionals(code, 3, vac_operands_init)
                ELSE rstate(TRUE, 2, vac_operands_init)
    IN
    IF ~opts.ok THEN exec_out(SIEVE_EXEC_BIN_CORRUPT, res, << >>, no_action, 0)
    ELSE IF ~operand_is(code, opts.pos, "string")
    THEN exec_out(SIEVE_EXEC_BIN_CORRUPT, res, << >>, no_action, 0)
    ELSE IF ~operand_is(code, opts.pos + 1, "string")
    THEN exec_out(SIEVE_EXEC_BIN_CORRUPT, res, << >>, no_action, 0)
    ELSE
    LET reason == code[opts.pos].v
        handle == code[opts.pos + 1].v
        o == opts.o
        \* Check and normalize :from address: the error is reported and
        \* execution goes on to add the action.
        from_errors ==
            IF o.from # NULL /\ ~sieve_address_valid(o.from)
            THEN << runtime_error("from", source_line, source_line) >>
            ELSE << >>
        act == action_entry("vacation", source_line,
                            act_vacation_context(o, reason, handle))
        add == sieve_result_add_action(res, act)
    IN exec_out(IF add.ret >= 0 THEN SIEVE_EXEC_OK ELSE SIEVE_EXEC_FAILURE,
                add.result, from_errors \o add.errors, act, add.ret)


(***************************************************************************)
(* Host interfaces: mail headers, the duplicate store                      *)
(***************************************************************************)

\* mail_get_headers / mail_get_headers_utf8: < 0 when the lookup fails,
\* otherwise the (possibly empty) list of values of the header.
mail_get_headers(mail, name) ==
    IF name \in mail.fail THEN [ret |-> -1, headers |-> << >>]
    ELSE IF name \in DOMAIN mail.hdrs
         THEN [ret |-> 1, headers |-> mail.hdrs[name]]
         ELSE [ret |-> 0, headers |-> << >>]

\* senv->duplicate_check(hash, ...): an entry exists and has not expired.
duplicate_check(st, hash, time) ==
    \E e \in st : e.key = hash /\ e.expire > time

\* senv->duplicate_mark(hash, ..., expire): the entry of the key is replaced.
duplicate_mark(st, hash, expire) ==
    {e \in st : e.key # hash} \cup {[key |-> hash, expire |-> expire]}

(***************************************************************************)
(* The vacation action's commit                                            *)
(***************************************************************************)

\* str_sanitize(s, max): longer strings are cut and marked.
str_sanitize(str, max) ==
    IF Len(str) > max THEN SubSeq(str, 1, max) \o <<".", ".", ".">> ELSE str

\* A check that knows the mailer daemon only.
is_system_address_daemon_only(address) ==
    strncasecmp_eq(address, str_mailer_daemon)

is_system_address(address) ==
    \/ strncasecmp_eq(address, str_mailer_daemon)
    \/ strncasecmp_eq(address, str_listserv)
    \/ strncasecmp_eq(address, str_majordomo)
    \/ strstr_found(address, str_request_at)
    \/ strncmp_eq(address, str_owner_dash)

\* _contains_my_address: some address parsed from some header value has a
\* domain and reads my_address as mailbox@domain.  A header value is given
\* as the address list message_address_parse makes of it.
contains_my_address(headers, my_address) ==
    \E i \in 1..Len(headers) : \E j \in 1..Len(headers[i]) :
        LET addr == headers[i][j] IN
        /\ addr.domain # NULL
        /\ strcmp_eq(addr.mailbox \o str_at \o addr.domain, my_address)

\* act_vacation_hash without the md5_update of the handle.
act_vacation_hash_nohandle(msgdata, vctx) ==
    md5(msgdata.return_path)

\* act_vacation_hash: MD5 over the return path followed by the handle.
act_vacation_hash(msgdata, vctx) ==
    md5(msgdata.return_path \o vctx.handle)

send_out(ret, warnings, errors, smtp) ==
    [ret |-> ret, warnings |-> warnings, errors |-> errors, smtp |-> smtp]

\* A reply sent like an ordinary message: the user's address as envelope
\* sender, no Auto-Submitted and no Precedence header.
act_vacation_send_plain(msgdata, senv, ctx, close_ok) ==
    IF ~senv.smtp_open \/ ~senv.smtp_close
    THEN send_out(TRUE, <<"no means to send mail">>, << >>, << >>)
    ELSE send_out(TRUE, << >>, << >>,
            << [rcpt |-> msgdata.return_path,
                envelope_from |-> msgdata.to_address,
                from |-> msgdata.to_address,
                to |-> msgdata.return_path,
                subject |-> str_sanitize(ctx.subject, 256),
                auto_submitted |-> NULL,
                precedence |-> NULL,
                mime |-> ctx.mime,
                body |-> ctx.reason,
                delivered |-> close_ok] >>)

\* An act_vacation_send that answers FALSE when the session does not close.
act_vacation_send_strict(msgdata, senv, ctx, close_ok) ==
    IF ~senv.smtp_open \/ ~senv.smtp_close
    THEN send_out(TRUE, <<"no means to send mail">>, << >>, << >>)
    ELSE
    LET reply ==
          [rcpt |-> msgdata.return_path,
           envelope_from |-> NULL,
           from |-> IF ctx.from # NULL /\ ctx.from # str_empty
                    THEN ctx.from ELSE msgdata.to_address,
           to |-> msgdata.return_path,
           subject |-> str_sanitize(ctx.subject, 256),
           auto_submitted |-> str_auto_replied,
           precedence |-> str_bulk,
           mime |-> ctx.mime,
           body |-> ctx.reason,
           delivered |-> close_ok]
    IN IF ~close_ok
       THEN send_out(FALSE, << >>, <<"failed to send vacation response">>, <<reply>>)
       ELSE send_out(TRUE, << >>, << >>, <<reply>>)

\* act_vacation_send; close_ok is what senv->smtp_close answers.
act_vacation_send(msgdata, senv, ctx, close_ok) ==
    IF ~senv.smtp_open \/ ~senv.smtp_close
    THEN send_out(TRUE, <<"no means to send mail">>, << >>, << >>)
    ELSE
    LET reply ==
          [rcpt |-> msgdata.return_path,
           envelope_from |-> NULL,
           from |-> IF ctx.from # NULL /\ ctx.from # str_empty
                    THEN ctx.from ELSE msgdata.to_address,
           to |-> msgdata.return_path,
           subject |-> str_sanitize(ctx.subject, 256),
           auto_submitted |-> str_auto_replied,
           precedence |-> str_bulk,
           mime |-> ctx.mime,
           body |-> ctx.reason,
           delivered |-> close_ok]
    IN IF ~close_ok
       THEN send_out(TRUE, << >>, <<"failed to send vacation response">>, <<reply>>)
       ELSE send_out(TRUE, << >>, << >>, <<reply>>)

commit_out(ret, log, snd, st) ==
    [ret |-> ret, log |-> log, warnings |-> snd.warnings,
     errors |-> snd.errors, smtp |-> snd.smtp, store |-> st]

no_send == send_out(TRUE, << >>, << >>, << >>)

\* The header tests of act_vacation_commit, in the order of the code.
vacation_is_list_message(mail) ==
    \E i \in 1..Len(list_headers) :
        LET r == mail_get_headers(mail, list_headers[i]) IN
        r.ret >= 0 /\ r.headers # << >>

vacation_is_auto_submitted(mail) ==
    LET r == mail_get_headers(mail, "auto-submitted") IN
    r.ret >= 0 /\ \E i \in 1..Len(r.headers) : ~strcasecmp_eq(r.headers[i], str_no)

\* A Precedence check that compares the values byte by byte.
vacation_is_bulk_precedence_exact(mail) ==
    LET r == mail_get_headers(mail, "precedence") IN
    r.ret >= 0 /\ \E i \in 1..Len(r.headers) :
        r.headers[i] \in {str_junk, str_bulk, str_list}

vacation_is_bulk_precedence(mail) ==
    LET r == mail_get_headers(mail, "precedence") IN
    r.ret >= 0 /\ \E i \in 1..Len(r.headers) :
        \/ strcasecmp_eq(r.headers[i], str_junk)
        \/ strcasecmp_eq(r.headers[i], str_bulk)
        \/ strcasecmp_eq(r.headers[i], str_list)

vacation_is_addressed_to_me(msgdata, ctx) ==
    \E i \in 1..Len(my_address_headers) :
        LET r == mail_get_headers(msgdata.mail, my_address_headers[i]) IN
        /\ r.ret >= 0 /\ r.headers # << >>
        /\ \/ contains_my_address(r.headers, msgdata.to_address)
           \/ /\ ctx.addresses # NULL_LIST
              /\ \E k \in 1..Len(ctx.addresses) :
                    contains_my_address(r.headers, ctx.addresses[k])

\* A reply subject that repeats the original Subject without "Auto: ".
vacation_reply_subject_noprefix(msgdata, ctx) ==
    IF ctx.subject = NULL \/ ctx.subject = str_empty
    THEN LET r == mail_get_headers(msgdata.mail, "subject") IN
         IF r.ret >= 0 /\ r.headers # << >>
         THEN r.headers[1]
         ELSE str_automated_reply
    ELSE ctx.subject

\* Make sure we have a subject for our reply.
vacation_reply_subject(msgdata, ctx) ==
    IF ctx.subject = NULL \/ ctx.subject = str_empty
    THEN LET r == mail_get_headers(msgdata.mail, "subject") IN
         IF r.ret >= 0 /\ r.headers # << >>
         THEN str_auto_prefix \o r.headers[1]
         ELSE str_automated_reply
    ELSE ctx.subject

\* "Mark as replied": the mark the commit writes after act_vacation_send.
vacation_mark_expire(time, ctx) == time + ctx.days * DaySecs

\* act_vacation_commit.  uninit is the content of dupl_hash when the code
\* never assigned it (senv->duplicate_check == NULL).
act_vacation_commit(msgdata, senv, ctx, st, time, close_ok, uninit) ==
    LET dupl_hash == IF senv.duplicate_check
                     THEN act_vacation_hash(msgdata, ctx) ELSE uninit
    IN
    IF msgdata.return_path = NULL \/ msgdata.return_path = str_empty
    THEN commit_out(TRUE, <<"discarded vacation reply to <>">>, no_send, st)
    ELSE IF strcmp_eq(msgdata.return_path, msgdata.to_address)
    THEN commit_out(TRUE, <<"discarded vacation reply to own address">>, no_send, st)
    ELSE IF senv.duplicate_check /\ duplicate_check(st, dupl_hash, time)
    THEN commit_out(TRUE, <<"discarded duplicate vacation response">>, no_send, st)
    ELSE IF vacation_is_list_message(msgdata.mail)
    THEN commit_out(TRUE, <<"discarding vacation response to mailinglist recipient">>,
                    no_send, st)
    ELSE IF vacation_is_auto_submitted(msgdata.mail)
    THEN commit_out(TRUE, <<"discardig vacation response to auto-submitted message">>,
                    no_send, st)
    ELSE IF vacation_is_bulk_precedence(msgdata.mail)
    THEN commit_out(TRUE, <<"discarding vacation response to precedence message">>,
                    no_send, st)
    ELSE IF is_system_address(msgdata.return_path)
    THEN commit_out(TRUE, <<"not sending vacation response to system address">>,
                    no_send, st)
    ELSE IF ~vacation_is_addressed_to_me(msgdata, ctx)
    THEN commit_out(TRUE,
            <<"discarding vacation response for message implicitly delivered">>,
            no_send, st)
    ELSE
    LET ctx1 == [ctx EXCEPT !.subject = vacation_reply_subject(msgdata, ctx)]
        snd == act_vacation_send(msgdata, senv, ctx1, close_ok)
    IN IF snd.ret
       THEN commit_out(TRUE, <<"sent vacation response">>, snd,
                IF senv.duplicate_mark
                THEN duplicate_mark(st, dupl_hash, vacation_mark_expire(time, ctx1))
                ELSE st)
       ELSE commit_out(FALSE, << >>, snd, st)


\* message_address_parse on the address of a To header: mailbox@domain; an
\* address without "@" has no domain.
message_address_parse(str) ==
    LET ats == {i \in 1..Len(str) : str[i] = "@"} IN
    IF ats = {} THEN << [mailbox |-> str, domain |-> NULL] >>
    ELSE LET i == CHOOSE k \in ats : \A j \in ats : k <= j IN
         << [mailbox |-> SubSeq(str, 1, i - 1),
             domain |-> SubSeq(str, i + 1, Len(str))] >>

\* The headers act_vacation_send writes into the reply, as the recipient's
\* mail storage hands them out.
reply_headers(reply) ==
    [n \in {"from", "to", "subject"}
            \cup (IF reply.auto_submitted # NULL
                  THEN {"auto-submitted"} ELSE {})
            \cup (IF reply.precedence # NULL THEN {"precedence"} ELSE {}) |->
        CASE n = "to" -> << message_address_parse(reply.to) >>
          [] n = "from" -> << message_address_parse(reply.from) >>
          [] n = "subject" -> << reply.subject >>
          [] n = "auto-submitted" -> << reply.auto_submitted >>
          [] n = "precedence" -> << reply.precedence >>]

\* The reply as the message data of its delivery: the envelope sender given
\* to smtp_open is the return path, the envelope recipient the to_address.
reply_message(reply) ==
    [return_path |-> reply.envelope_from, to_address |-> reply.rcpt,
     mail |-> [hdrs |-> reply_headers(reply), fail |-> {}]]

(***************************************************************************)
(* The duplicate extension                                                 *)
(***************************************************************************)

EXT_DUPLICATE_DEFAULT_PERIOD == 12 * 60 * 60
EXT_DUPLICATE_DEFAULT_MAX_PERIOD == 2 * 24 * 60 * 60

str_sieve_duplicate ==
    <<"s","i","e","v","e"," ","d","u","p","l","i","c","a","t","e">>
str_zero == <<"0">>
str_plus == <<"+">>
str_h_dash == <<"h","-">>
str_default == <<"d","e","f","a","u","l","t">>

\* struct act_duplicate_mark_data.
act_duplicate_mark_data(handle, period, hash, last) ==
    [handle |-> handle, period |-> period, hash |-> hash, last |-> last]

\* What a finish hook did: the store it leaves and the marks it wrote.
finish_out(st, calls) == [store |-> st, calls |-> calls]

\* sieve_action_duplicate_mark: the host's duplicate_mark, when it has one.
sieve_action_duplicate_mark(senv_, st, hash, expire) ==
    IF senv_.duplicate_mark
    THEN finish_out(duplicate_mark(st, hash, expire),
                    << [key |-> hash, expire |-> expire] >>)
    ELSE finish_out(st, << >>)

\* sieve_action_duplicate_check: the host's duplicate_check, when it has one.
sieve_action_duplicate_check(senv_, st, hash, time) ==
    senv_.duplicate_check /\ duplicate_check(st, hash, time)

sieve_action_duplicate_check_available(senv_) ==
    senv_.duplicate_check /\ senv_.duplicate_mark

act_duplicate_mark_finish_always(data, senv_, status, st, time) ==
    sieve_action_duplicate_mark(senv_, st, data.hash, time + data.period)

act_duplicate_mark_finish_never(data, senv_, status, st, time) ==
    finish_out(st, << >>)

\* The finish hook of the duplicate_mark action.
act_duplicate_mark_finish(data, senv_, status, st, time) ==
    IF status = SIEVE_EXEC_OK
    THEN sieve_action_duplicate_mark(senv_, st, data.hash, time + data.period)
    ELSE finish_out(st, << >>)

\* struct ext_duplicate_handle and struct ext_duplicate_context.
ext_duplicate_handle(handle, last, duplicate) ==
    [handle |-> handle, last |-> last, duplicate |-> duplicate]

ext_duplicate_context_new ==
    [set |-> TRUE, created |-> FALSE, handles |-> << >>,
     nohandle_duplicate |-> FALSE, nohandle_checked |-> FALSE]

\* The message context before the extension stored its own in it.
NoContext == [set |-> FALSE]

ext_duplicate_hash(handle, value, last) ==
    md5(str_sieve_duplicate
        \o (IF last THEN str_zero ELSE str_plus)
        \o (IF handle # NULL THEN str_h_dash \o handle ELSE str_default)
        \o value)

\* A per-message cache that never answers.
duplicate_cached_never(rctx, handle, last) == {}

\* The records of the per-message cache that answer a check with a handle.
duplicate_cached(rctx, handle, last) ==
    {i \in 1..Len(rctx.handles) :
        /\ strcmp_eq(rctx.handles[i].handle, handle)
        /\ rctx.handles[i].last = last}

\* What ext_duplicate_check yields: its return value, the message context
\* and the result it leaves, its warnings, and the keys it looked up in the
\* duplicate store, in order.
check_out(ret, rctx, res, warnings, lookups) ==
    [ret |-> ret, msgctx |-> rctx, result |-> res, warnings |-> warnings,
     lookups |-> lookups]

\* A mark that is planned for new messages only.
duplicate_mark_planned_new_only(duplicate, last) == ~duplicate

\* Whether the check plans a duplicate_mark action: for a message that is
\* no duplicate, and with :last for every message.
duplicate_mark_planned(duplicate, last) == ~duplicate \/ last

\* ext_duplicate_check from the point where the context is fetched: the
\* cache, the store lookups, the planned mark and the cache update.
ext_duplicate_check_value(senv_, rctx_in, res, st, time, handle, value, period, last) ==
    LET rctx == IF ~rctx_in.set THEN ext_duplicate_context_new ELSE rctx_in
        hits == duplicate_cached(rctx, handle, last)
    IN
    IF rctx_in.set /\ handle = NULL /\ rctx.nohandle_checked
    THEN check_out(IF rctx.nohandle_duplicate THEN 1 ELSE 0, rctx, res,
                   << >>, << >>)
    ELSE IF rctx_in.set /\ handle # NULL /\ rctx.created /\ hits # {}
    THEN LET i == CHOOSE k \in hits : \A j \in hits : k <= j IN
         check_out(IF rctx.handles[i].duplicate THEN 1 ELSE 0, rctx, res,
                   << >>, << >>)
    ELSE
    LET hash == ext_duplicate_hash(handle, value, last)
        act == act_duplicate_mark_data(handle, period, hash, last)
        duplicate == sieve_action_duplicate_check(senv_, st, hash, time)
        \* the entry without :last is looked up and its answer dropped
        lookups == IF ~duplicate /\ last
                   THEN << hash, ext_duplicate_hash(handle, value, FALSE) >>
                   ELSE << hash >>
        add == IF duplicate_mark_planned(duplicate, last)
               THEN sieve_result_add_action(res,
                        action_entry("duplicate_mark", 0, act))
               ELSE [ret |-> 0, errors |-> << >>, result |-> res]
    IN
    IF add.ret < 0
    THEN check_out(-1, rctx, res, << >>, lookups)
    ELSE check_out(IF duplicate THEN 1 ELSE 0,
                   IF handle = NULL
                   THEN [rctx EXCEPT !.nohandle_duplicate = duplicate,
                                     !.nohandle_checked = TRUE]
                   ELSE [rctx EXCEPT
                            !.created = TRUE,
                            !.handles = Append(rctx.handles,
                                ext_duplicate_handle(handle, last, duplicate))],
                   add.result, << >>, lookups)

\* A check that goes on whether or not checking is available and the value
\* is present.
ext_duplicate_check_unguarded(senv_, rctx_in, res, st, time, handle, value, period, last) ==
    ext_duplicate_check_value(senv_, rctx_in, res, st, time, handle, value,
                              period, last)

ext_duplicate_check(senv_, rctx_in, res, st, time, handle, value, period, last) ==
    IF ~sieve_action_duplicate_check_available(senv_)
    THEN check_out(0, rctx_in, res, << "not available" >>, << >>)
    ELSE IF value = NULL
    THEN check_out(0, rctx_in, res, << >>, << >>)
    ELSE ext_duplicate_check_value(senv_, rctx_in, res, st, time, handle,
                                   value, period, last)

(***************************************************************************)
(* The address test                                                        *)
(***************************************************************************)

i_octet_comparator == "i;octet"
i_ascii_casemap_comparator == "i;ascii-casemap"
is_match_type == "is"
contains_match_type == "contains"
all_address_part == "all"
local_address_part == "localpart"
domain_address_part == "domain"

\* An optional operand of the ADDRESS operation: which of the three
\* capabilities it selects, and the object selected.
opt_comparator(cmp) == [kind |-> "comparator", object |-> cmp]
opt_match_type(mtch) == [kind |-> "match-type", object |-> mtch]
opt_address_part(addrp) == [kind |-> "address-part", object |-> addrp]
opt_corrupt == [kind |-> "corrupt", object |-> "none"]

\* The comparators: equality and substring search.
comparator_equals(cmp, a, b) ==
    IF cmp = i_octet_comparator THEN strcmp_eq(a, b) ELSE strcasecmp_eq(a, b)

comparator_contains(cmp, a, b) ==
    IF cmp = i_octet_comparator THEN strstr_found(a, b)
    ELSE strstr_found(str_lcase(a), str_lcase(b))

\* The match context sieve_match_begin sets up.
sieve_match_begin(mtch, cmp, key_list) ==
    [mtch |-> mtch, cmp |-> cmp, key_list |-> key_list]

\* The match type applied to one value: some key matches it.
sieve_match_value(mctx, value) ==
    \E k \in 1..Len(mctx.key_list) :
        IF mctx.mtch = is_match_type
        THEN comparator_equals(mctx.cmp, value, mctx.key_list[k])
        ELSE comparator_contains(mctx.cmp, value, mctx.key_list[k])

\* :is and :contains decide value by value; finalization adds nothing.
sieve_match_end(mctx) == FALSE

\* The part of an address the address part selects.
address_part_extract(addrp, addr) ==
    CASE addrp = all_address_part -> addr.mailbox \o str_at \o addr.domain
      [] addrp = local_address_part -> addr.mailbox
      [] addrp = domain_address_part -> addr.domain

\* sieve_address_match: some address of the header value matches.
sieve_address_match(addrp, mctx, header) ==
    \E j \in 1..Len(header) :
        /\ header[j].domain # NULL
        /\ sieve_match_value(mctx, address_part_extract(addrp, header[j]))

\* What reading the optional operands yields.
optionals_out(ok, addrp, mtch, cmp) ==
    [ok |-> ok, addrp |-> addrp, mtch |-> mtch, cmp |-> cmp]

\* sieve_addrmatch_default_get_optionals: every optional operand replaces
\* the object its caller preset; a corrupt operand fails the read.
RECURSIVE sieve_addrmatch_default_get_optionals(_, _, _, _, _)
sieve_addrmatch_default_get_optionals(optionals, i, addrp, mtch, cmp) ==
    IF i > Len(optionals) THEN optionals_out(TRUE, addrp, mtch, cmp)
    ELSE LET o == optionals[i] IN
         CASE o.kind = "comparator" ->
                sieve_addrmatch_default_get_optionals(optionals, i + 1,
                    addrp, mtch, o.object)
           [] o.kind = "match-type" ->
                sieve_addrmatch_default_get_optionals(optionals, i + 1,
                    addrp, o.object, cmp)
           [] o.kind = "address-part" ->
                sieve_addrmatch_default_get_optionals(optionals, i + 1,
                    o.object, mtch, cmp)
           [] OTHER -> optionals_out(FALSE, addrp, mtch, cmp)

\* A string-list operand as sieve_opr_stringlist_read finds it: a coded
\* string list, or no string list at all.
stringlist(items) == [ok |-> TRUE, items |-> items]
stringlist_unreadable == [ok |-> FALSE, items |-> << >>]

\* An item of a coded string list: a string, or bytes that do not decode.
item(str) == [ok |-> TRUE, str |-> str]
item_corrupt == [ok |-> FALSE, str |-> "none"]

\* What the header loop yields: whether a value matched and the header
\* values fed to the matcher, in order.
loop_out(matched, fed) == [matched |-> matched, fed |-> fed]

\* A value loop that feeds every value of the header, matched or not.
RECURSIVE address_match_values_all(_, _, _, _)
address_match_values_all(addrp, mctx, headers, i) ==
    IF i > Len(headers) THEN loop_out(FALSE, << >>)
    ELSE LET rest == address_match_values_all(addrp, mctx, headers, i + 1) IN
         loop_out(sieve_address_match(addrp, mctx, headers[i]) \/ rest.matched,
                  << headers[i] >> \o rest.fed)

\* The values of one header, fed from value i on until one matches.
RECURSIVE address_match_values(_, _, _, _)
address_match_values(addrp, mctx, headers, i) ==
    IF i > Len(headers) THEN loop_out(FALSE, << >>)
    ELSE IF sieve_address_match(addrp, mctx, headers[i])
         THEN loop_out(TRUE, << headers[i] >>)
         ELSE LET rest == address_match_values(addrp, mctx, headers, i + 1) IN
              loop_out(rest.matched, << headers[i] >> \o rest.fed)

\* The headers of the header list, from item i on, until a value matches,
\* the list ends or an item cannot be read.
RECURSIVE address_match_headers(_, _, _, _, _)
address_match_headers(addrp, mctx, mail, hdr_list, i) ==
    IF i > Len(hdr_list) \/ ~hdr_list[i].ok THEN loop_out(FALSE, << >>)
    ELSE LET got == mail_get_headers(mail, hdr_list[i].str)
             here == IF got.ret >= 0
                     THEN address_match_values(addrp, mctx, got.headers, 1)
                     ELSE loop_out(FALSE, << >>)
         IN IF here.matched THEN here
            ELSE LET rest == address_match_headers(addrp, mctx, mail,
                                                   hdr_list, i + 1)
                 IN loop_out(rest.matched, here.fed \o rest.fed)

\* What executing the ADDRESS operation yields: its return value, whether
\* it set the test-result register and to what, the objects it matched
\* with and the header values it fed to the matcher.
address_out(ret, set, matched, opts, fed) ==
    [ret |-> ret, set |-> set, matched |-> matched, addrp |-> opts.addrp,
     mtch |-> opts.mtch, cmp |-> opts.cmp, fed |-> fed]

tst_address_opcode_execute(code, mail) ==
    LET opts == sieve_addrmatch_default_get_optionals(code.optionals, 1,
                    all_address_part, is_match_type, i_octet_comparator)
    IN
    IF ~opts.ok THEN address_out(FALSE, FALSE, FALSE, opts, << >>)
    ELSE IF ~code.hdr_list.ok
    THEN address_out(FALSE, FALSE, FALSE, opts, << >>)
    ELSE IF ~code.key_list.ok
    THEN address_out(FALSE, FALSE, FALSE, opts, << >>)
    ELSE
    LET mctx == sieve_match_begin(opts.mtch, opts.cmp, code.key_list.items)
        loop == address_match_headers(opts.addrp, mctx, mail,
                                      code.hdr_list.items, 1)
        matched == sieve_match_end(mctx) \/ loop.matched
    IN address_out(TRUE, TRUE, matched, opts, loop.fed)

(***************************************************************************)
(* The setflag command of the imapflags extension                          *)
(***************************************************************************)

flag_seen == <<"\\","S","e","e","n">>
flag_answered == <<"\\","A","n","s","w","e","r","e","d">>
flag_flagged == <<"\\","F","l","a","g","g","e","d">>

\* The flags a flag string names: its words, separated by spaces.
RECURSIVE flags_list(_)
flags_list(str) ==
    LET spaces == { i \in 1..Len(str) : str[i] = " " } IN
    IF str = << >> THEN {}
    ELSE IF spaces = {} THEN { str }
    ELSE LET i == CHOOSE k \in spaces : \A j \in spaces : k <= j IN
         (IF i = 1 THEN {} ELSE { SubSeq(str, 1, i - 1) })
             \cup flags_list(SubSeq(str, i + 1, Len(str)))

\* The flags an interpreter keeps: the internal flag set of the message and
\* the variables of the script that hold flags.
flags_state(internal, variables) ==
    [internal |-> internal, variables |-> variables]

\* The operands of a flag command: an optional variable and the flag list.
no_variable == [kind |-> "none", index |-> 0]
opr_variable(index) == [kind |-> "variable", index |-> index]
opr_variable_corrupt == [kind |-> "corrupt", index |-> 0]
setflag_code(variable, flag_list) ==
    [variable |-> variable, flag_list |-> flag_list]

\* ext_imapflags_command_operands_read: the variable operand, when there is
\* one, and the flag list are read; storage is NULL without a variable.
ext_imapflags_command_operands_read(code) ==
    [ok |-> code.variable.kind # "corrupt" /\ code.flag_list.ok,
     flag_list |-> code.flag_list.items,
     storage |-> IF code.variable.kind = "variable" THEN "variables" ELSE "NULL",
     var_index |-> code.variable.index]

\* ext_imapflags_set_flags: the current flags, those of the variable when
\* there is a storage and else the internal ones, become the flags of the
\* flag string.
ext_imapflags_set_flags(st, storage, var_index, flags) ==
    IF storage # "NULL"
    THEN [st EXCEPT !.variables[var_index] = flags_list(flags)]
    ELSE [st EXCEPT !.internal = flags_list(flags)]

setflag_out(ret, st) == [ret |-> ret, flags |-> st]

\* "Iterate through all flags to set": the items of the flag list from item
\* i on, until the list ends or an item cannot be read.
RECURSIVE cmd_setflag_loop(_, _, _, _, _)
cmd_setflag_loop(flag_list, i, st, storage, var_index) ==
    IF i > Len(flag_list) THEN setflag_out(TRUE, st)
    ELSE IF ~flag_list[i].ok THEN setflag_out(FALSE, st)
    ELSE cmd_setflag_loop(flag_list, i + 1,
             ext_imapflags_set_flags(st, storage, var_index, flag_list[i].str),
             storage, var_index)

cmd_setflag_operation_execute(code, st) ==
    LET ops == ext_imapflags_command_operands_read(code) IN
    IF ~ops.ok THEN setflag_out(FALSE, st)
    ELSE cmd_setflag_loop(ops.flag_list, 1, st, ops.storage, ops.var_index)

\* Flag lists of up to MaxFlagItems items: one flag, two flags in one
\* string, an item that does not decode.
MaxFlagItems == 2

\* An item of the flag list whose bytes do not decode.
flag_item_corrupt == [ok |-> FALSE, str |-> << >>]

FlagItems ==
    { item(flag_seen), item(flag_flagged),
      item(flag_seen \o <<" ">> \o flag_answered), flag_item_corrupt }

FlagLists ==
    { stringlist(l) : l \in UNION { [1..n -> FlagItems] : n \in 1..MaxFlagItems } }
    \cup { stringlist_unreadable }

FlagVariables == { no_variable, opr_variable(1), opr_variable_corrupt }

\* The flags before the command: none, or \Answered set by an earlier one.
FlagStates ==
    { flags_state(f, [v \in {1} |-> f]) : f \in { {}, { flag_answered } } }

(***************************************************************************)
(* The LDA plugin                                                          *)
(***************************************************************************)

SIEVE_SCRIPT_PATH ==
    <<"~","/",".","d","o","v","e","c","o","t",".","s","i","e","v","e">>
str_slash == <<"/">>

\* The deliver hooks a process can have installed.
lda_sieve_deliver_mail_hook == "lda_sieve_deliver_mail"
no_deliver_mail == "NULL"

\* getenv: the value of the variable, NULL when it is not set.
getenv(env, name) == env[name]

\* home_expand: a leading "~/" stands for the home directory, when known.
home_expand(env, path) ==
    IF /\ Len(path) >= 2 /\ path[1] = "~" /\ path[2] = "/"
       /\ getenv(env, "HOME") # NULL
    THEN getenv(env, "HOME") \o Tail(path)
    ELSE path

\* t_strconcat(a, b, c, NULL): the argument list ends at the first NULL.
t_strconcat(a, b, c) == IF a = NULL THEN NULL ELSE a \o b \o c

\* A file system: the paths that exist and, of them, the ones stat cannot
\* reach (a directory above them denies search).
file_system(files, denied) == [files |-> files, denied |-> denied]

\* stat: 0 with errno untouched, or -1 with errno set.
stat(fs, path) ==
    IF path = NULL THEN [ret |-> -1, errno |-> "EFAULT"]
    ELSE IF path \in fs.denied THEN [ret |-> -1, errno |-> "EACCES"]
    ELSE IF path \in fs.files THEN [ret |-> 0, errno |-> "none"]
    ELSE [ret |-> -1, errno |-> "ENOENT"]

\* What lda_sieve_get_path yields: the path, the path it called stat on
\* (NULL when it did not) and the errors it logged.
path_out(path, stated, errors) ==
    [path |-> path, stated |-> stated, errors |-> errors]

\* A script selection that takes the global script whatever SIEVE and HOME
\* say, also when they disable Sieve.
lda_sieve_get_path_nodisable(env, fs) ==
    path_out(IF getenv(env, "SIEVE_GLOBAL_PATH") # NULL
             THEN getenv(env, "SIEVE_GLOBAL_PATH")
             ELSE getenv(env, "GLOBAL_SCRIPT_PATH"), NULL, << >>)

lda_sieve_get_path(env, fs) ==
    LET home == getenv(env, "HOME")
        sieve == getenv(env, "SIEVE")
    IN
    IF sieve # NULL /\ sieve = str_empty
    THEN \* disabled
         path_out(NULL, NULL, << >>)
    ELSE IF sieve = NULL /\ home = NULL
    THEN path_out(NULL, NULL, << "Per-user script path is unknown" >>)
    ELSE
    LET expanded == home_expand(env, sieve)
        script_path ==
            IF sieve # NULL
            THEN IF expanded # str_empty /\ expanded[1] # "/"
                 THEN \* relative path. change to absolute.
                      t_strconcat(getenv(env, "HOME"), str_slash, expanded)
                 ELSE expanded
            ELSE home_expand(env, SIEVE_SCRIPT_PATH)
        st == stat(fs, script_path)
    IN
    IF st.ret < 0
    THEN \* use global script instead, if one exists
         path_out(IF getenv(env, "SIEVE_GLOBAL_PATH") # NULL
                  THEN getenv(env, "SIEVE_GLOBAL_PATH")
                  ELSE getenv(env, "GLOBAL_SCRIPT_PATH"),
                  script_path,
                  IF st.errno # "ENOENT" THEN << "stat failed" >> ELSE << >>)
    ELSE path_out(script_path, script_path, << >>)

\* What lda_sieve_run yields: its return value, the calls it made to
\* sieve_open and sieve_execute, and what it acquired and released: the
\* references to the error handler and the script binary.
run_out(ret, opened, executed, created, unrefs, sbin_opened, sbin_closed) ==
    [ret |-> ret, opened |-> opened, executed |-> executed,
     ehandler_created |-> created, ehandler_unrefs |-> unrefs,
     sbin_opened |-> sbin_opened, sbin_closed |-> sbin_closed]

\* No script was run.
no_run == run_out(0, << >>, 0, 0, 0, 0, 0)

\* open_ok: whether sieve_open hands out a binary; exec_ret: what
\* sieve_execute returns for it.
lda_sieve_run(script_path, open_ok, exec_ret) ==
    IF ~open_ok
    THEN run_out(-1, << script_path >>, 0, 1, 1, 0, 0)
    ELSE run_out(exec_ret, << script_path >>, 1, 1, 1, 1, 0)

\* What the deliver hook yields: its return value, the script selection and
\* the run.
deliver_out(ret, sel, run) == [ret |-> ret, sel |-> sel, run |-> run]

\* A deliver hook that hands on what lda_sieve_run returned.
lda_sieve_deliver_mail_passret(env, fs, open_ok, exec_ret) ==
    LET sel == lda_sieve_get_path(env, fs) IN
    IF sel.path = NULL THEN deliver_out(0, sel, no_run)
    ELSE LET run == lda_sieve_run(sel.path, open_ok, exec_ret) IN
         deliver_out(run.ret, sel, run)

lda_sieve_deliver_mail(env, fs, open_ok, exec_ret) ==
    LET sel == lda_sieve_get_path(env, fs) IN
    IF sel.path = NULL THEN deliver_out(0, sel, no_run)
    ELSE LET run == lda_sieve_run(sel.path, open_ok, exec_ret) IN
         deliver_out(IF run.ret >= 0 THEN 1 ELSE -1, sel, run)

\* The process-wide state of the plugin: whether the engine is initialised
\* (sieve_init / sieve_deinit), the host's deliver_mail hook and the
\* plugin's next_deliver_mail.
plugin_state(engine, deliver_mail, next_deliver_mail) ==
    [engine |-> engine, deliver_mail |-> deliver_mail,
     next_deliver_mail |-> next_deliver_mail]

\* Statement n of sieve_plugin_init.
sieve_plugin_init(p, n) ==
    CASE n = 1 -> [p EXCEPT !.engine = TRUE]
      [] n = 2 -> [p EXCEPT !.next_deliver_mail = p.deliver_mail]
      [] n = 3 -> [p EXCEPT !.deliver_mail = lda_sieve_deliver_mail_hook]

\* A deinit that tears the engine down first.
sieve_plugin_deinit_engine_first(p, n) ==
    CASE n = 1 -> [p EXCEPT !.engine = FALSE]
      [] n = 2 -> [p EXCEPT !.deliver_mail = p.next_deliver_mail]

\* Statement n of sieve_plugin_deinit.
sieve_plugin_deinit(p, n) ==
    CASE n = 1 -> [p EXCEPT !.deliver_mail = p.next_deliver_mail]
      [] n = 2 -> [p EXCEPT !.engine = FALSE]

(***************************************************************************)
(* The header test: validation and code generation                         *)
(***************************************************************************)

SIEVE_OPCODE_HEADER == "HEADER"

opr_opcode(op) == [t |-> "opcode", v |-> op]

\* The tags tst_header_registered links to the test: the comparator tag,
\* which takes a string, and the match-type tags, which take nothing.
header_tags == {"comparator", "is", "contains", "matches"}

\* A command context: the arguments and the number of subtests of the AST
\* node, tst->data (the position of an argument, 0 while unset), the errors
\* reported for it and the code generated for it.
command_context(args, subtests) ==
    [args |-> args, subtests |-> subtests, data |-> 0, errors |-> << >>,
     binary |-> << >>, stage |-> "parsed"]

\* The tag loop of sieve_validate_command_arguments: the position behind
\* the leading tags that are registered for the test, each with its
\* parameter; 0 when a tag's parameter is missing or no string.
RECURSIVE header_tag_loop(_, _)
header_tag_loop(args, i) ==
    IF i > Len(args) \/ args[i].type # "tag" \/ args[i].id \notin header_tags
    THEN i
    ELSE IF args[i].id # "comparator" THEN header_tag_loop(args, i + 1)
    ELSE IF i + 1 <= Len(args) /\ args[i + 1].type = "string"
    THEN header_tag_loop(args, i + 2)
    ELSE 0

\* What a validation function yields: its verdict, the first positional
\* argument and the errors it reported.
validate_out(ok, first, errors) ==
    [ok |-> ok, first |-> first, errors |-> errors]

\* sieve_validate_command_arguments(validator, tst, count, &arg): the tags
\* are validated, *arg is the first argument behind them, and the number of
\* arguments from there on has to be count.
sieve_validate_command_arguments(args, count) ==
    LET first == header_tag_loop(args, 1) IN
    IF first = 0
    THEN validate_out(FALSE, 0, << "invalid tag parameter" >>)
    ELSE IF \E i \in first..Len(args) : args[i].type = "tag"
    THEN validate_out(FALSE, first, << "unexpected tag" >>)
    ELSE IF Len(args) - first + 1 # count
    THEN validate_out(FALSE, first, << "wrong number of positional arguments" >>)
    ELSE validate_out(TRUE, first, << >>)

\* sieve_validate_command_subtests(validator, tst, count).
sieve_validate_command_subtests(subtests, count) ==
    IF subtests # count
    THEN validate_out(FALSE, 0, << "wrong number of subtests" >>)
    ELSE validate_out(TRUE, 0, << >>)

\* type is SAAT_STRING or SAAT_STRING_LIST.
is_stringlist_argument(arg) == arg.type \in {"string", "string_list"}

\* A validation that looks at the type of the first argument only.
tst_header_validate_first_only(tst) ==
    LET a == sieve_validate_command_arguments(tst.args, 2)
        b == sieve_validate_command_subtests(tst.subtests, 0)
    IN
    IF ~a.ok THEN [tst EXCEPT !.stage = "invalid", !.errors = a.errors]
    ELSE IF ~b.ok THEN [tst EXCEPT !.stage = "invalid", !.errors = b.errors]
    ELSE IF ~is_stringlist_argument(tst.args[a.first])
    THEN [tst EXCEPT !.stage = "invalid", !.data = a.first,
                     !.errors = << "expects a string-list as first argument" >>]
    ELSE [tst EXCEPT !.stage = "valid", !.data = a.first]

\* tst_header_validate: the command context after validation; stage
\* "valid" stands for TRUE, "invalid" for FALSE.
tst_header_validate(tst) ==
    LET a == sieve_validate_command_arguments(tst.args, 2)
        b == sieve_validate_command_subtests(tst.subtests, 0)
    IN
    IF ~a.ok THEN [tst EXCEPT !.stage = "invalid", !.errors = a.errors]
    ELSE IF ~b.ok THEN [tst EXCEPT !.stage = "invalid", !.errors = b.errors]
    ELSE IF ~is_stringlist_argument(tst.args[a.first])
    THEN [tst EXCEPT !.stage = "invalid", !.data = a.first,
                     !.errors = << "expects a string-list as first argument" >>]
    ELSE IF ~is_stringlist_argument(tst.args[a.first + 1])
    THEN [tst EXCEPT !.stage = "invalid", !.data = a.first,
                     !.errors = << "expects a string-list as second argument" >>]
    ELSE [tst EXCEPT !.stage = "valid", !.data = a.first]

\* sieve_generator_emit_stringlist_argument: a string or a string list is
\* emitted as its operand; for any other argument nothing is emitted and
\* the answer is FALSE.
sieve_generator_emit_stringlist_argument(arg) ==
    CASE arg.type = "string" -> [ok |-> TRUE, code |-> << opr_string(arg.str) >>]
      [] arg.type = "string_list" ->
            [ok |-> TRUE, code |-> << opr_stringlist(arg.lst) >>]
      [] OTHER -> [ok |-> FALSE, code |-> << >>]

\* tst_header_generate: the opcode, the argument at ctx->data, the next
\* argument; stage "generated" stands for TRUE, "failed" for FALSE.
tst_header_generate(ctx) ==
    LET op == << opr_opcode(SIEVE_OPCODE_HEADER) >>
        e1 == sieve_generator_emit_stringlist_argument(ctx.args[ctx.data])
    IN
    IF ~e1.ok THEN [ctx EXCEPT !.stage = "failed", !.binary = op]
    ELSE LET e2 == sieve_generator_emit_stringlist_argument(
                        ctx.args[ctx.data + 1])
         IN IF ~e2.ok
            THEN [ctx EXCEPT !.stage = "failed", !.binary = op \o e1.code]
            ELSE [ctx EXCEPT !.stage = "generated",
                             !.binary = op \o e1.code \o e2.code]

(***************************************************************************)
(* Inputs of the model                                                     *)
(***************************************************************************)

\* Bounds of the model.
MaxDeliveries == 2
MaxTicks == 2
MaxScripts == 2
MaxOps == 2
MaxHeaders == 2

MaxArgs == 3
NumProcs == 2

parsed_address(mailbox, domain) == [mailbox |-> mailbox, domain |-> domain]
to_user == << << parsed_address(<<"u">>, <<"d">>) >> >>
to_alias == << << parsed_address(<<"v">>, <<"d">>) >> >>

mail_with(hdrs) == [hdrs |-> hdrs, fail |-> {}]

message(return_path, mail) ==
    [return_path |-> return_path, to_address |-> addr_user, mail |-> mail]

hdr_to_user == [n \in {"to"} |-> to_user]
hdr_list_id == [n \in {"to", "list-id"} |->
                    IF n = "to" THEN to_user ELSE << <<"l">> >>]
hdr_auto_no == [n \in {"to", "auto-submitted"} |->
                    IF n = "to" THEN to_user ELSE << <<"N","o">> >>]
hdr_cc_alias == [n \in {"cc"} |-> to_alias]
hdr_subject == [n \in {"to", "subject"} |->
                    IF n = "to" THEN to_user ELSE << <<"H","i">> >>]
hdr_auto_replied == [n \in {"to", "auto-submitted"} |->
                    IF n = "to" THEN to_user ELSE << str_auto_replied >>]
hdr_precedence_bulk == [n \in {"to", "precedence"} |->
                    IF n = "to" THEN to_user ELSE << <<"B","u","l","k">> >>]

\* The messages delivered.
Messages ==
    { message(addr_sender, mail_with(hdr_to_user)),
      message(addr_sender2, mail_with(hdr_auto_no)),
      message(addr_sender, mail_with(hdr_cc_alias)),
      message(NULL, mail_with(hdr_to_user)),
      message(addr_user, mail_with(hdr_to_user)),
      message(addr_sender, mail_with(hdr_list_id)),
      message(addr_sender, mail_with(hdr_subject)),
      message(str_empty, mail_with(hdr_to_user)),
      message(addr_sender, mail_with(hdr_auto_replied)),
      message(addr_sender, mail_with(hdr_precedence_bulk)),
      message(addr_system, mail_with(hdr_to_user)),
      message(addr_sender, [hdrs |-> hdr_to_user, fail |-> {"to"}]) }

\* The messages delivered one after another: two senders, a message to an
\* alias and one from a list.
DeliveryMessages ==
    { message(addr_sender, mail_with(hdr_to_user)),
      message(addr_sender2, mail_with(hdr_auto_no)),
      message(addr_sender, mail_with(hdr_cc_alias)),
      message(addr_sender, mail_with(hdr_list_id)) }

addr_request == <<"l","-","r","e","q","u","e","s","t","@","d">>
addr_daemon == <<"M","a","i","l","e","r","-","D","a","e","m","o","n","@","d">>

hdr_resent_bcc == [n \in {"to", "resent-bcc"} |->
                    IF n = "to" THEN to_alias ELSE to_user]
hdr_precedence_first == [n \in {"to", "precedence"} |->
                    IF n = "to" THEN to_user
                    ELSE << <<"f","i","r","s","t">>, <<"L","i","s","t">> >>]

\* A subject of 257 characters, and one that has 257 with "Auto: " before it.
subject_long == [i \in 1..257 |-> "x"]
subject_long_auto == [i \in 1..251 |-> "y"]

hdr_subject_long == [n \in {"to", "subject"} |->
                    IF n = "to" THEN to_user ELSE << subject_long_auto >>]
hdr_subject_two == [n \in {"to", "subject"} |->
                    IF n = "to" THEN to_user
                    ELSE << <<"H","i">>, <<"B","y","e">> >>]

\* The messages whose commit is followed on its own: the ones above, system
\* senders, a message readdressed to the user, several Precedence headers,
\* a list message whose List-Id lookup fails, and messages with a long
\* Subject, two Subject headers and a Subject whose lookup fails.
CommitMessages ==
    Messages \cup
    { message(addr_sender, mail_with(hdr_subject_long)),
      message(addr_sender, mail_with(hdr_subject_two)),
      message(addr_sender, [hdrs |-> hdr_subject, fail |-> {"subject"}]) } \cup
    { message(addr_request, mail_with(hdr_to_user)),
      message(addr_daemon, mail_with(hdr_to_user)),
      message(addr_sender, mail_with(hdr_resent_bcc)),
      message(addr_sender, mail_with(hdr_precedence_first)),
      message(addr_sender, [hdrs |-> hdr_list_id, fail |-> {"list-id"}]) }

NoMessage == message(NULL, mail_with(hdr_to_user))

\* Vacation commands as the parser hands them over: source line, arguments.
command(line, args) == [line |-> line, args |-> args]

cmd_handle(line) ==
    command(line, << arg_tag("handle"), arg_string(handle_h), arg_string(reason_r) >>)
cmd_days0 ==
    command(1, << arg_tag("days"), arg_number(0),
                  arg_tag("handle"), arg_string(handle_h), arg_string(reason_r) >>)
cmd_days2 ==
    command(1, << arg_tag("handle"), arg_string(handle_h),
                  arg_tag("days"), arg_number(2), arg_string(reason_r) >>)
cmd_handle_g ==
    command(2, << arg_tag("handle"), arg_string(handle_g), arg_string(reason_r) >>)
cmd_auto_handle ==
    command(1, << arg_tag("subject"), arg_string(subject_s), arg_tag("mime"),
                  arg_tag("from"), arg_string(addr_alias), arg_string(reason_r) >>)
cmd_addresses ==
    command(1, << arg_tag("addresses"), arg_string_list(<<addr_alias>>),
                  arg_tag("handle"), arg_string(handle_h), arg_string(reason_r) >>)
cmd_reordered ==
    command(1, << arg_tag("from"), arg_string(addr_alias), arg_tag("mime"),
                  arg_tag("days"), arg_number(2),
                  arg_tag("subject"), arg_string(subject_s), arg_string(reason_r) >>)
cmd_subject_st ==
    command(1, << arg_tag("subject"), arg_string(<<"s","t">>),
                  arg_string(reason_r) >>)
cmd_reason_rs ==
    command(1, << arg_tag("subject"), arg_string(<<"t">>),
                  arg_string(<<"r","s">>) >>)
cmd_bad_from ==
    command(1, << arg_tag("from"), arg_string(addr_invalid), arg_string(reason_r) >>)
cmd_bad_days ==
    command(1, << arg_tag("days"), arg_string(reason_r) >>)

cmd_subject_long ==
    command(1, << arg_tag("subject"), arg_string(subject_long),
                  arg_tag("handle"), arg_string(handle_h), arg_string(reason_r) >>)
cmd_subject_empty ==
    command(1, << arg_tag("subject"), arg_string(str_empty),
                  arg_tag("handle"), arg_string(handle_h), arg_string(reason_r) >>)

\* The commands of the scripts of successive deliveries.
DeliveryCommands ==
    { cmd_handle(1), cmd_days0, cmd_days2, cmd_auto_handle, cmd_addresses }

\* The commands whose commit is followed on its own: the ones above, one
\* with a long and one with an empty :subject.
CommitCommands ==
    DeliveryCommands \cup { cmd_subject_long, cmd_subject_empty }

\* A stored binary whose days operand is 0.
bin_days0 ==
    << opr_source_line(1), opr_optional_marker, opr_optional_code(OPT_DAYS),
       opr_number(0), opr_optional_code(OPT_END),
       opr_string(reason_r), opr_string(handle_h) >>

DeliveryBinaries == { bin_days0 }

\* Binaries one of whose operands cannot be read: the source line, an
\* optional code, the operand of :days, :subject, :from or :addresses, the
\* reason, the handle; and one with an optional code that does not exist.
bin_no_line == << opr_string(reason_r), opr_string(handle_h) >>
bin_bad_optional ==
    << opr_source_line(1), opr_optional_marker, opr_string(reason_r),
       opr_string(handle_h) >>
bin_bad_days ==
    << opr_source_line(1), opr_optional_marker, opr_optional_code(OPT_DAYS),
       opr_string(reason_r), opr_string(handle_h) >>
bin_bad_subject ==
    << opr_source_line(1), opr_optional_marker, opr_optional_code(OPT_SUBJECT),
       opr_number(1), opr_optional_code(OPT_END),
       opr_string(reason_r), opr_string(handle_h) >>
bin_bad_from ==
    << opr_source_line(1), opr_optional_marker, opr_optional_code(OPT_FROM),
       opr_number(1), opr_optional_code(OPT_END),
       opr_string(reason_r), opr_string(handle_h) >>
bin_bad_addresses ==
    << opr_source_line(1), opr_optional_marker,
       opr_optional_code(OPT_ADDRESSES), opr_string(addr_alias),
       opr_optional_code(OPT_END), opr_string(reason_r), opr_string(handle_h) >>
bin_unknown_code ==
    << opr_source_line(1), opr_optional_marker, opr_optional_code(OPT_MIME + 1),
       opr_string(reason_r), opr_string(handle_h) >>
bin_no_reason ==
    << opr_source_line(1), opr_optional_marker, opr_optional_code(OPT_MIME),
       opr_optional_code(OPT_END) >>
bin_no_handle == << opr_source_line(1), opr_string(reason_r) >>

CorruptBinaries ==
    { bin_no_line, bin_bad_optional, bin_bad_days, bin_bad_subject,
      bin_bad_from, bin_bad_addresses, bin_unknown_code, bin_no_reason,
      bin_no_handle }

\* The commands of the scripts whose interpretation is followed in detail.
VacationCommands ==
    { cmd_handle(1), cmd_handle(2), cmd_days0, cmd_days2, cmd_handle_g,
      cmd_auto_handle, cmd_reordered, cmd_addresses, cmd_subject_st,
      cmd_reason_rs, cmd_bad_from, cmd_bad_days }

\* Binaries that no validator has seen (a stored binary, a value that is
\* known only at run time): days 0, an invalid :from, corrupt operands.
VacationBinaries ==
    { bin_days0,
      << opr_source_line(2), opr_optional_marker, opr_optional_code(OPT_FROM),
         opr_string(addr_invalid), opr_optional_code(OPT_END),
         opr_string(reason_r), opr_string(handle_h) >>,
      << opr_source_line(1), opr_optional_marker, opr_optional_code(OPT_MIME),
         opr_optional_code(OPT_END), opr_string(reason_r),
         opr_string(handle_h) >> }
    \cup CorruptBinaries

\* Script environments: any capability may be absent.
script_env(so, sc, dc, dm) ==
    [smtp_open |-> so, smtp_close |-> sc, duplicate_check |-> dc,
     duplicate_mark |-> dm]

FullEnv == script_env(TRUE, TRUE, TRUE, TRUE)

ScriptEnvs ==
    { FullEnv,
      script_env(FALSE, TRUE, TRUE, TRUE),
      script_env(TRUE, FALSE, TRUE, TRUE),
      script_env(TRUE, TRUE, FALSE, TRUE),
      script_env(TRUE, TRUE, TRUE, FALSE) }

\* What an unassigned dupl_hash may hold.
UninitHashes == { md5(addr_sender \o handle_h), md5(<<"?">>) }

\* The value the duplicate test tracks: a message id, or none.
value_m == <<"m">>

\* A duplicate test as the interpreter hands it to ext_duplicate_check.
duplicate_test(handle, value, period, last) ==
    [handle |-> handle, value |-> value, period |-> period, last |-> last]

\* Tests without a handle keep the default period, tests with the handle h
\* the longest one.
test_period(handle) ==
    IF handle = NULL THEN EXT_DUPLICATE_DEFAULT_PERIOD
                     ELSE EXT_DUPLICATE_DEFAULT_MAX_PERIOD

DuplicateTests ==
    { duplicate_test(NULL, value_m, test_period(NULL), FALSE),
      duplicate_test(NULL, value_m, test_period(NULL), TRUE),
      duplicate_test(handle_h, value_m, test_period(handle_h), FALSE),
      duplicate_test(handle_h, value_m, test_period(handle_h), TRUE),
      duplicate_test(NULL, NULL, test_period(NULL), FALSE) }

\* The scripts: up to MaxOps duplicate tests, spread over chained scripts.
DuplicateScripts ==
    UNION { [1..n -> DuplicateTests] : n \in 1..MaxOps }

\* The ADDRESS operation's operands.
address_code(optionals, hdr_list, key_list) ==
    [optionals |-> optionals, hdr_list |-> hdr_list, key_list |-> key_list]

\* Optional-operand blocks: each capability selected or left alone, in the
\* order the generator emits them, and a block that does not decode.
AddressOptionals ==
    { a \o m \o c :
        a \in { << >> } \cup { << opt_address_part(x) >> :
                  x \in {all_address_part, local_address_part,
                         domain_address_part} },
        m \in { << >> } \cup { << opt_match_type(x) >> :
                  x \in {is_match_type, contains_match_type} },
        c \in { << >> } \cup { << opt_comparator(x) >> :
                  x \in {i_octet_comparator, i_ascii_casemap_comparator} } }
    \cup { << opt_corrupt >> }

\* Header lists of up to MaxHeaders items.
HeaderItems == { item("from"), item("to"), item_corrupt }

HeaderLists ==
    { stringlist(l) : l \in UNION { [1..n -> HeaderItems] : n \in 1..MaxHeaders } }
    \cup { stringlist_unreadable }

key_root == <<"r","o","o","t">>
key_root_at_host == <<"r","o","o","t","@","h","o","s","t">>
key_host == <<"H","o","s","t">>

KeyLists ==
    { stringlist(<< key_root >>), stringlist(<< key_root_at_host >>),
      stringlist(<< key_host, key_root >>), stringlist_unreadable }

from_Root == << << parsed_address(<<"R","o","o","t">>, <<"h","o","s","t">>) >> >>
from_root == << << parsed_address(<<"r","o","o","t">>, <<"h","o","s","t">>) >> >>
to_two == << << parsed_address(<<"u">>, <<"d">>) >>,
             << parsed_address(<<"r","o","o","t">>, <<"h","o","s","t">>) >> >>
from_two == << << parsed_address(<<"r","o","o","t">>, <<"h","o","s","t">>) >>,
               << parsed_address(<<"u">>, <<"d">>) >> >>

hdr_from(from) == [n \in {"from"} |-> from]
hdr_from_to(from, to) == [n \in {"from", "to"} |-> IF n = "from" THEN from ELSE to]

AddressMails ==
    { mail_with(hdr_from(from_Root)),
      mail_with(hdr_from(from_root)),
      mail_with(hdr_from_to(from_Root, to_two)),
      mail_with(hdr_from_to(from_two, to_two)),
      [hdrs |-> hdr_from_to(from_Root, to_two), fail |-> {"from"}] }

\* The environment of a delivery and the files of the user.
path_home == <<"/","h">>
path_user == <<"/","u">>
path_relative == <<"r">>
path_global == <<"/","g">>
path_old_global == <<"/","o">>

lda_env(home, sieve, global, old_global) ==
    [n \in {"HOME", "SIEVE", "SIEVE_GLOBAL_PATH", "GLOBAL_SCRIPT_PATH"} |->
        CASE n = "HOME" -> home
          [] n = "SIEVE" -> sieve
          [] n = "SIEVE_GLOBAL_PATH" -> global
          [] n = "GLOBAL_SCRIPT_PATH" -> old_global]

LdaEnvs ==
    { lda_env(h, sv, g, o) :
        h \in {NULL, path_home},
        sv \in {NULL, str_empty, path_user, path_relative},
        g \in {NULL, path_global},
        o \in {NULL, path_old_global} }

\* The paths a per-user script can have.
UserPaths ==
    { path_user, path_home \o str_slash \o path_relative,
      path_home \o Tail(SIEVE_SCRIPT_PATH) }

\* The user's scripts all exist, none exists, or they exist where stat is
\* denied.
FileSystems ==
    { file_system(UserPaths, {}), file_system({}, {}),
      file_system(UserPaths, UserPaths) }

\* What sieve_execute returns.
ExecReturns == {-1, 0, 1}

\* The hooks the host has before the plugin is loaded: none, or the one of
\* another plugin.
HostHooks == {no_deliver_mail, "other_deliver_mail"}

\* Every combination of present and absent capabilities.
CommitEnvs ==
    { script_env(so, sc, dc, dm) : so, sc, dc, dm \in BOOLEAN }

\* The duplicate store as earlier deliveries left it: empty, or holding the
\* mark of a reply to addr_sender under handle_h that ends the next day.
CommitStores ==
    { {}, {[key |-> md5(addr_sender \o handle_h), expire |-> DaySecs]} }

\* The arguments of header tests as the parser hands them over: no tag, a
\* match-type tag, the comparator tag with and without its parameter, a tag
\* the test does not know; then up to MaxArgs strings, string lists and
\* numbers.
HeaderTagPrefixes ==
    { << >>,
      << arg_tag("is") >>,
      << arg_tag("comparator"), arg_string(<<"i",";","o","c","t","e","t">>) >>,
      << arg_tag("matches"), arg_tag("comparator") >>,
      << arg_tag("days") >> }

HeaderArguments ==
    { arg_string(<<"t","o">>),
      arg_string_list(<< <<"t","o">>, <<"c","c">> >>),
      arg_number(1) }

HeaderTests ==
    { command_context(t \o a, n) :
        t \in HeaderTagPrefixes,
        a \in UNION { [1..k -> HeaderArguments] : k \in 0..MaxArgs },
        n \in 0..1 }

DuplicateEnvs ==
    { FullEnv,
      script_env(TRUE, TRUE, FALSE, TRUE),
      script_env(TRUE, TRUE, TRUE, FALSE) }

ExecStatuses ==
    { SIEVE_EXEC_OK, SIEVE_EXEC_FAILURE, SIEVE_EXEC_TEMP_FAILURE,
      SIEVE_EXEC_BIN_CORRUPT, SIEVE_EXEC_KEEP_FAILED }


(***************************************************************************)
(* State                                                                   *)
(***************************************************************************)

VARIABLES
    now,        \* ioloop_time
    store,      \* the host's duplicate store: entries [key, expire]
    senv,       \* struct sieve_script_env: which capabilities are present
    msgdata,    \* struct sieve_message_data of the delivery under way
    phase,      \* "idle", "run" (a script is interpreted), "done" (executed)
    result,     \* the result list of the delivery under way
    nscript,    \* the number of the chained script of this delivery
    nops,       \* operations executed by the running script
    ndeliv,     \* deliveries started
    last,       \* what the last handler was given and what it produced
    commits,    \* the vacation commits that were due a reply, oldest first
    msgctx,     \* the duplicate extension's per-message context (rctx)
    runs,       \* the duplicate_mark actions finished so far
    script,     \* the duplicate tests of the user's script, in order
    checks,     \* the duplicate tests evaluated for this message, in order
    interp,     \* the interpreter running a test: operands, mail, register
    lda,        \* the LDA plugin: its lifecycle, hooks and last delivery
    procs,      \* the interpreters committing concurrently on one store
    tst,        \* the command context of the header test being compiled
    imapflags   \* the interpreter at a SETFLAG operation: operands, flags

vars == << now, store, senv, msgdata, phase, result, nscript, nops, ndeliv,
           last, commits, msgctx, runs, script, checks, interp, lda, procs,
           tst, imapflags >>

\* What the vacation command never touches.
duplicate_vars == << msgctx, runs, script, checks >>
test_vars == << interp >>
lda_vars == << lda >>
process_vars == << procs >>
compile_vars == << tst >>
flag_vars == << imapflags >>

\* No interpreters commit side by side.
NoProcs == << >>

\* No SETFLAG operation is under way.
NoFlags == [state |-> "none"]

\* No header test is being compiled.
NoTest == [stage |-> "none"]

\* The LDA plugin's part of the state: the function under way and the
\* number of its statements executed, the process-wide state, the hook the
\* host installed last and the last delivery through the plugin's hook.
\* No delivery has gone through the plugin's hook yet.
NoDelivery == [set |-> FALSE]

\* The process before the plugin is loaded: no deliver hook, the engine not
\* initialised.
plugin_unloaded ==
    [pc |-> "unloaded", stmt |-> 0,
     plugin |-> plugin_state(FALSE, no_deliver_mail, no_deliver_mail),
     host_hook |-> no_deliver_mail, delivery |-> NoDelivery]

\* The interpreter when no test is under way.
NoInterp == [state |-> "none"]

\* The interpreter about to execute an ADDRESS operation on a mail, with the
\* test-result register as earlier tests left it.
interpreter(code, mail, test_result) ==
    [state |-> "ready", code |-> code, mail |-> mail,
     test_result |-> test_result]

\* Every reply condition of the commit except the duplicate check.
reply_conditions(m, ctx) ==
    /\ m.return_path # NULL /\ m.return_path # str_empty
    /\ ~strcmp_eq(m.return_path, m.to_address)
    /\ ~vacation_is_list_message(m.mail)
    /\ ~vacation_is_auto_submitted(m.mail)
    /\ ~vacation_is_bulk_precedence(m.mail)
    /\ ~is_system_address(m.return_path)
    /\ vacation_is_addressed_to_me(m, ctx)

\* The store holds a live entry under the key of (return path, handle).
replied_before(st, m, ctx, time) ==
    \E e \in st : e.key = md5(m.return_path \o ctx.handle) /\ e.expire > time

Init ==
    /\ now = 0
    /\ store = {}
    /\ senv \in ScriptEnvs
    /\ msgdata = NoMessage
    /\ phase = "idle"
    /\ result = << >>
    /\ nscript = 0
    /\ nops = 0
    /\ ndeliv = 0
    /\ last = [kind |-> "none"]
    /\ commits = << >>
    /\ msgctx = NoContext
    /\ runs = {}
    /\ script = << >>
    /\ checks = << >>
    /\ interp = NoInterp
    /\ lda = plugin_unloaded
    /\ procs = NoProcs
    /\ tst = NoTest
    /\ imapflags = NoFlags

\* Time passes between deliveries.
Tick ==
    /\ phase = "idle"
    /\ now < MaxTicks * DaySecs
    /\ now' = now + DaySecs
    /\ last' = [kind |-> "tick"]
    /\ UNCHANGED << store, senv, msgdata, phase, result, nscript, nops, ndeliv,
                    commits >>
    /\ UNCHANGED << duplicate_vars, test_vars, lda_vars, process_vars, compile_vars, flag_vars >>

\* A message arrives: sieve_execute starts with an empty result.
Deliver(m) ==
    /\ phase = "idle"
    /\ ndeliv < MaxDeliveries
    /\ msgdata' = m
    /\ phase' = "run"
    /\ result' = << >>
    /\ nscript' = 1
    /\ nops' = 0
    /\ ndeliv' = ndeliv + 1
    /\ last' = [kind |-> "deliver"]
    /\ UNCHANGED << now, store, senv, commits >>
    /\ UNCHANGED << duplicate_vars, test_vars, lda_vars, process_vars, compile_vars, flag_vars >>

\* The run is over: the interpreter and the result are released.
RunEnds ==
    /\ phase' = "idle"
    /\ result' = << >>
    /\ msgdata' = NoMessage
    /\ nscript' = 0
    /\ nops' = 0

\* The interpreter's reaction to an operation's return code: go on, or
\* abort the run and drop the result.
AfterOperation(out, src) ==
    /\ last' = [kind |-> "vacation", src |-> src, out |-> out, before |-> result]
    /\ IF out.ret = SIEVE_EXEC_OK
       THEN /\ result' = out.result
            /\ nops' = nops + 1
            /\ UNCHANGED << phase, msgdata, nscript >>
       ELSE RunEnds
    /\ UNCHANGED << now, store, senv, ndeliv, commits >>
    /\ UNCHANGED << duplicate_vars, test_vars, lda_vars, process_vars, compile_vars, flag_vars >>

\* A vacation command of the script: validated, generated, executed.
RunVacationCommand(cmd) ==
    /\ phase = "run"
    /\ nops < MaxOps
    /\ LET st == vacation_validated(cmd.args) IN
       IF ~st.ok
       THEN \* validation failed: the script does not compile, nothing runs
            /\ last' = [kind |-> "invalid", src |-> cmd]
            /\ RunEnds
            /\ UNCHANGED << now, store, senv, ndeliv, commits >>
            /\ UNCHANGED << duplicate_vars, test_vars, lda_vars, process_vars, compile_vars, flag_vars >>
       ELSE AfterOperation(
                ext_vacation_operation_execute(
                    cmd_vacation_generate(cmd.line, st), result),
                [cmd |-> cmd, code |-> cmd_vacation_generate(cmd.line, st)])

\* A VACATION operation of a binary that was not generated in this run.
RunVacationBinary(code) ==
    /\ phase = "run"
    /\ nops < MaxOps
    /\ AfterOperation(ext_vacation_operation_execute(code, result),
                      [cmd |-> command(0, << >>), code |-> code])

\* Another command of the script adds its action to the result.
RunOtherAction(def, line) ==
    /\ phase = "run"
    /\ nops < MaxOps
    /\ LET add == sieve_result_add_action(result, action_entry(def, line, << >>)) IN
       /\ last' = [kind |-> "other", def |-> def, add |-> add, before |-> result]
       /\ IF add.ret >= 0
          THEN /\ result' = add.result
               /\ nops' = nops + 1
               /\ UNCHANGED << phase, msgdata, nscript >>
          ELSE RunEnds
    /\ UNCHANGED << now, store, senv, ndeliv, commits >>
    /\ UNCHANGED << duplicate_vars, test_vars, lda_vars, process_vars, compile_vars, flag_vars >>

\* The entries of the result the execution has still to commit.
pending_vacations(res) ==
    {i \in 1..Len(res) : ~res[i].executed /\ res[i].def = "vacation"}

mark_executed(res) == [i \in 1..Len(res) |-> [res[i] EXCEPT !.executed = TRUE]]

\* One record of the history of vacation commits.
commit_record(m, ctx, time, out, n) ==
    [return_path |-> m.return_path,
     handle |-> ctx.handle,
     days |-> ctx.days,
     time |-> time,
     delivery |-> n,
     sessions |-> Len(out.smtp),
     marked |-> \E e \in out.store :
                    /\ e.key = md5(m.return_path \o ctx.handle)
                    /\ e.expire = time + ctx.days * DaySecs]

\* Execution of the result after the script ended: every action not yet
\* executed is committed in order and then counts as executed.
Commit(close_ok, uninit) ==
    /\ phase = "run"
    /\ uninit \in (IF senv.duplicate_check THEN {str_empty} ELSE UninitHashes)
    /\ close_ok \in (IF pending_vacations(result) # {}
                       /\ senv.smtp_open /\ senv.smtp_close
                     THEN BOOLEAN ELSE {TRUE})
    /\ IF pending_vacations(result) = {}
       THEN /\ last' = [kind |-> "commit_none"]
            /\ UNCHANGED << store, commits >>
            /\ UNCHANGED << duplicate_vars, test_vars, lda_vars, process_vars, compile_vars, flag_vars >>
       ELSE LET i == CHOOSE k \in pending_vacations(result) :
                        \A j \in pending_vacations(result) : k <= j
                ctx == result[i].ctx
                out == act_vacation_commit(msgdata, senv, ctx, store, now,
                                           close_ok, uninit)
            IN /\ last' = [kind |-> "commit", ctx |-> ctx, out |-> out,
                           before |-> store, msgdata |-> msgdata]
               /\ store' = out.store
               /\ commits' =
                    IF reply_conditions(msgdata, ctx)
                       /\ ~replied_before(store, msgdata, ctx, now)
                    THEN Append(commits,
                            commit_record(msgdata, ctx, now, out, ndeliv))
                    ELSE commits
    /\ result' = mark_executed(result)
    /\ phase' = "done"
    /\ UNCHANGED << now, senv, msgdata, nscript, nops, ndeliv >>
    /\ UNCHANGED << duplicate_vars, test_vars, lda_vars, process_vars, compile_vars, flag_vars >>

\* The next script of the chain runs on the same message and result.
NextScript ==
    /\ phase = "done"
    /\ nscript < MaxScripts
    /\ nscript' = nscript + 1
    /\ nops' = 0
    /\ phase' = "run"
    /\ last' = [kind |-> "script"]
    /\ UNCHANGED << now, store, senv, msgdata, result, ndeliv, commits >>
    /\ UNCHANGED << duplicate_vars, test_vars, lda_vars, process_vars, compile_vars, flag_vars >>

\* The delivery is over.
EndDelivery ==
    /\ phase = "done"
    /\ RunEnds
    /\ last' = [kind |-> "end"]
    /\ UNCHANGED << now, store, senv, ndeliv, commits >>
    /\ UNCHANGED << duplicate_vars, test_vars, lda_vars, process_vars, compile_vars, flag_vars >>

CommitStep ==
    \E close_ok \in BOOLEAN, uninit \in UninitHashes \cup {str_empty} :
        Commit(close_ok, uninit)

\* Successive deliveries, each running a script of one vacation command.
Next ==
    \/ Tick
    \/ \E m \in DeliveryMessages : Deliver(m)
    \/ \E cmd \in DeliveryCommands : nops = 0 /\ RunVacationCommand(cmd)
    \/ \E code \in DeliveryBinaries : nops = 0 /\ RunVacationBinary(code)
    \/ nops = 1 /\ CommitStep
    \/ EndDelivery

Spec == Init /\ [][Next]_vars

\* One delivery under way, of any message, in any script environment.
InitCommit ==
    /\ now = 0
    /\ store \in CommitStores
    /\ senv \in CommitEnvs
    /\ msgdata \in CommitMessages
    /\ phase = "run"
    /\ result = << >>
    /\ nscript = 1
    /\ nops = 0
    /\ ndeliv = 1
    /\ last = [kind |-> "deliver"]
    /\ commits = << >>
    /\ msgctx = NoContext
    /\ runs = {}
    /\ script = << >>
    /\ checks = << >>
    /\ interp = NoInterp
    /\ lda = plugin_unloaded
    /\ procs = NoProcs
    /\ tst = NoTest
    /\ imapflags = NoFlags

\* The reply the commit sent is delivered to its recipient, whose script
\* environment is env and whose duplicate store holds nothing yet.
DeliverReply(env) ==
    /\ phase = "done"
    /\ ndeliv = 1
    /\ last.kind = "commit"
    /\ last.out.smtp # << >>
    /\ last.out.smtp[1].delivered
    /\ msgdata' = reply_message(last.out.smtp[1])
    /\ senv' = env
    /\ store' = {}
    /\ phase' = "run"
    /\ result' = << >>
    /\ nscript' = 1
    /\ nops' = 0
    /\ ndeliv' = ndeliv + 1
    /\ last' = [kind |-> "deliver"]
    /\ UNCHANGED << now, commits >>
    /\ UNCHANGED << duplicate_vars, test_vars, lda_vars, process_vars, compile_vars, flag_vars >>

\* The commit of one vacation action, and the delivery of its reply.
NextCommit ==
    \/ \E cmd \in CommitCommands : nops = 0 /\ RunVacationCommand(cmd)
    \/ nops = 1 /\ CommitStep
    \/ \E env \in CommitEnvs : DeliverReply(env)

SpecCommit == InitCommit /\ [][NextCommit]_vars

\* A header test as parsed, before validation.
InitHeader ==
    /\ now = 0
    /\ store = {}
    /\ senv = FullEnv
    /\ msgdata = NoMessage
    /\ phase = "idle"
    /\ result = << >>
    /\ nscript = 0
    /\ nops = 0
    /\ ndeliv = 0
    /\ last = [kind |-> "none"]
    /\ commits = << >>
    /\ msgctx = NoContext
    /\ runs = {}
    /\ script = << >>
    /\ checks = << >>
    /\ interp = NoInterp
    /\ lda = plugin_unloaded
    /\ procs = NoProcs
    /\ tst \in HeaderTests
    /\ imapflags = NoFlags

\* The validator calls the test's validate hook.
ValidateHeaderTest ==
    /\ tst.stage = "parsed"
    /\ tst' = tst_header_validate(tst)
    /\ UNCHANGED << now, store, senv, msgdata, phase, result, nscript, nops,
                    ndeliv, last, commits, duplicate_vars, test_vars, lda_vars,
                    process_vars, flag_vars >>

\* The generator calls the generate hook of a test that was validated.
GenerateHeaderTest ==
    /\ tst.stage = "valid"
    /\ tst' = tst_header_generate(tst)
    /\ UNCHANGED << now, store, senv, msgdata, phase, result, nscript, nops,
                    ndeliv, last, commits, duplicate_vars, test_vars, lda_vars,
                    process_vars, flag_vars >>

NextHeader == ValidateHeaderTest \/ GenerateHeaderTest

SpecHeader == InitHeader /\ [][NextHeader]_vars

\* The vacation action a command of the script leaves in the result.
vacation_context_of(cmd) ==
    ext_vacation_operation_execute(
        cmd_vacation_generate(cmd.line, vacation_validated(cmd.args)),
        << >>).act.ctx

\* An interpreter about to commit the vacation action ctx for message m:
\* where it stands in act_vacation_commit, the store contents its
\* duplicate_check saw and what the commit produced.
committer(m, ctx) ==
    [pc |-> "check", msgdata |-> m, ctx |-> ctx, seen |-> {},
     out |-> commit_out(TRUE, << >>, no_send, {})]

\* NumProcs interpreters of one user, each delivering a message from one of
\* two senders with a vacation action under one of two handles; one host,
\* one duplicate store.
InitConcurrent ==
    /\ now = 0
    /\ store = {}
    /\ senv = FullEnv
    /\ msgdata = NoMessage
    /\ phase = "idle"
    /\ result = << >>
    /\ nscript = 0
    /\ nops = 0
    /\ ndeliv = 0
    /\ last = [kind |-> "none"]
    /\ commits = << >>
    /\ msgctx = NoContext
    /\ runs = {}
    /\ script = << >>
    /\ checks = << >>
    /\ interp = NoInterp
    /\ lda = plugin_unloaded
    /\ procs \in [1..NumProcs ->
            { committer(m, vacation_context_of(c)) :
                m \in { message(addr_sender, mail_with(hdr_to_user)),
                        message(addr_sender2, mail_with(hdr_auto_no)) },
                c \in { cmd_handle(1), cmd_handle_g } }]
    /\ tst = NoTest
    /\ imapflags = NoFlags

\* Interpreter p runs act_vacation_commit up to the host's duplicate_check:
\* it reads the store.
CommitCheck(p) ==
    /\ procs[p].pc = "check"
    /\ procs' = [procs EXCEPT ![p].pc = "send", ![p].seen = store]
    /\ UNCHANGED << now, store, senv, msgdata, phase, result, nscript, nops,
                    ndeliv, last, commits, duplicate_vars, test_vars, lda_vars,
                    compile_vars, flag_vars >>

\* Interpreter p goes on from the answer of duplicate_check to the return
\* of act_vacation_send: the commit as it comes out for the store that was
\* seen.  A mark is still to be written when the commit leaves one.
CommitSend(p, close_ok) ==
    /\ procs[p].pc = "send"
    /\ LET out == act_vacation_commit(procs[p].msgdata, senv, procs[p].ctx,
                                      procs[p].seen, now, close_ok, str_empty)
       IN procs' = [procs EXCEPT
                       ![p].out = out,
                       ![p].pc = IF out.store \ procs[p].seen # {}
                                 THEN "mark" ELSE "done"]
    /\ UNCHANGED << now, store, senv, msgdata, phase, result, nscript, nops,
                    ndeliv, last, commits, duplicate_vars, test_vars, lda_vars,
                    compile_vars, flag_vars >>

\* Interpreter p calls the host's duplicate_mark: the store as it is now
\* gets the mark.
CommitMark(p) ==
    /\ procs[p].pc = "mark"
    /\ LET e == CHOOSE x \in procs[p].out.store \ procs[p].seen : TRUE IN
       store' = duplicate_mark(store, e.key, e.expire)
    /\ procs' = [procs EXCEPT ![p].pc = "done"]
    /\ UNCHANGED << now, senv, msgdata, phase, result, nscript, nops,
                    ndeliv, last, commits, duplicate_vars, test_vars, lda_vars,
                    compile_vars, flag_vars >>

NextConcurrent ==
    \E p \in 1..NumProcs :
        \/ CommitCheck(p)
        \/ \E close_ok \in BOOLEAN : CommitSend(p, close_ok)
        \/ CommitMark(p)

SpecConcurrent == InitConcurrent /\ [][NextConcurrent]_vars

\* The interpreter stands before a SETFLAG operation.
InitSetflag ==
    /\ now = 0
    /\ store = {}
    /\ senv = FullEnv
    /\ msgdata = NoMessage
    /\ phase = "idle"
    /\ result = << >>
    /\ nscript = 0
    /\ nops = 0
    /\ ndeliv = 0
    /\ last = [kind |-> "none"]
    /\ commits = << >>
    /\ msgctx = NoContext
    /\ runs = {}
    /\ script = << >>
    /\ checks = << >>
    /\ interp = NoInterp
    /\ lda = plugin_unloaded
    /\ procs = NoProcs
    /\ tst = NoTest
    /\ imapflags \in { [state |-> "ready", code |-> setflag_code(v, l),
                        flags |-> st, before |-> st] :
                         v \in FlagVariables, l \in FlagLists,
                         st \in FlagStates }

ExecuteSetflag ==
    /\ imapflags.state = "ready"
    /\ LET out == cmd_setflag_operation_execute(imapflags.code,
                                                imapflags.flags) IN
       imapflags' = [state |-> IF out.ret THEN "done" ELSE "failed",
                     code |-> imapflags.code, flags |-> out.flags,
                     before |-> imapflags.flags]
    /\ UNCHANGED << now, store, senv, msgdata, phase, result, nscript, nops,
                    ndeliv, last, commits, duplicate_vars, test_vars,
                    lda_vars, process_vars, compile_vars >>

NextSetflag == ExecuteSetflag

SpecSetflag == InitSetflag /\ [][NextSetflag]_vars

\* One delivery whose chained scripts are followed operation by operation.
InitRun ==
    /\ now = 0
    /\ store = {}
    /\ senv = FullEnv
    /\ msgdata = message(addr_sender, mail_with(hdr_to_user))
    /\ phase = "run"
    /\ result = << >>
    /\ nscript = 1
    /\ nops = 0
    /\ ndeliv = 1
    /\ last = [kind |-> "deliver"]
    /\ commits = << >>
    /\ msgctx = NoContext
    /\ runs = {}
    /\ script = << >>
    /\ checks = << >>
    /\ interp = NoInterp
    /\ lda = plugin_unloaded
    /\ procs = NoProcs
    /\ tst = NoTest
    /\ imapflags = NoFlags

NextRun ==
    \/ \E cmd \in VacationCommands : RunVacationCommand(cmd)
    \/ \E code \in VacationBinaries : RunVacationBinary(code)
    \/ \E def \in {"reject", "fileinto"} : RunOtherAction(def, 3)
    \/ CommitStep
    \/ NextScript

SpecRun == InitRun /\ [][NextRun]_vars

\* The duplicate_mark entries of the result whose finish hook is still due.
pending_marks(res) ==
    {i \in 1..Len(res) : ~res[i].executed /\ res[i].def = "duplicate_mark"}

\* The finish hooks of the entries i, i-1, .. 1 run in this order.
RECURSIVE result_finish(_, _, _, _, _, _)
result_finish(res, i, senv_, status, st, time) ==
    IF i = 0 THEN finish_out(st, << >>)
    ELSE LET f == IF i \in pending_marks(res)
                  THEN act_duplicate_mark_finish(res[i].ctx, senv_, status,
                                                 st, time)
                  ELSE finish_out(st, << >>)
             rest == result_finish(res, i - 1, senv_, status, f.store, time)
         IN finish_out(rest.store, f.calls \o rest.calls)

\* One record of the history of finished duplicate_mark actions: the key,
\* whether the run was successful, the delivery it belonged to and, for a
\* successful run, when the period ends.
run_record(data, status, time, n) ==
    [hash |-> data.hash, ok |-> status = SIEVE_EXEC_OK, delivery |-> n,
     expire |-> IF status = SIEVE_EXEC_OK THEN time + data.period ELSE 0]

\* What the history keeps of the deliveries that are over: of a key, the
\* latest successful run and whether a run failed.
runs_summary(history) ==
    { r \in history :
        r.ok /\ ~\E n \in history :
                    n.ok /\ n.hash = r.hash /\ n.delivery > r.delivery }
    \cup { [r EXCEPT !.delivery = 0] : r \in {x \in history : ~x.ok} }

\* What is remembered of an evaluated duplicate test: the test, its answer
\* and whether it looked into the duplicate store.
check_record(t, out) ==
    [test |-> t, ret |-> out.ret, consulted |-> out.lookups # << >>,
     available |-> out.warnings = << >>]

InitDuplicate ==
    /\ now = 0
    /\ store = {}
    /\ senv \in DuplicateEnvs
    /\ msgdata = NoMessage
    /\ phase = "idle"
    /\ result = << >>
    /\ nscript = 0
    /\ nops = 0
    /\ ndeliv = 0
    /\ last = [kind |-> "none"]
    /\ commits = << >>
    /\ msgctx = NoContext
    /\ runs = {}
    /\ script \in DuplicateScripts
    /\ checks = << >>
    /\ interp = NoInterp
    /\ lda = plugin_unloaded
    /\ procs = NoProcs
    /\ tst = NoTest
    /\ imapflags = NoFlags

\* A message arrives: a fresh message context and an empty result.
DeliverDuplicate ==
    /\ phase = "idle"
    /\ ndeliv < MaxDeliveries
    /\ phase' = "run"
    /\ result' = << >>
    /\ msgctx' = NoContext
    /\ nscript' = 1
    /\ nops' = 0
    /\ ndeliv' = ndeliv + 1
    /\ last' = [kind |-> "deliver"]
    /\ checks' = << >>
    /\ UNCHANGED << now, store, senv, msgdata, commits, runs, script, interp, lda, procs, tst,
                    flag_vars >>

\* The script evaluates its next duplicate test.
RunDuplicateTest ==
    /\ phase = "run"
    /\ nops < Len(script)
    /\ LET t == script[nops + 1]
           out == ext_duplicate_check(senv, msgctx, result, store, now,
                                      t.handle, t.value, t.period, t.last)
       IN /\ last' = [kind |-> "duplicate", test |-> t, out |-> out,
                      before |-> result, cache |-> msgctx, store |-> store]
          /\ IF out.ret >= 0
             THEN /\ msgctx' = out.msgctx
                  /\ result' = out.result
                  /\ nops' = nops + 1
                  /\ checks' = Append(checks, check_record(t, out))
                  /\ UNCHANGED << phase, nscript >>
             ELSE /\ msgctx' = NoContext
                  /\ result' = << >>
                  /\ phase' = "idle"
                  /\ nscript' = 0
                  /\ nops' = 0
                  /\ checks' = << >>
    /\ UNCHANGED << now, store, senv, msgdata, ndeliv, commits, runs, script, interp, lda, procs, tst,
                    flag_vars >>

\* The script ended, or was aborted, with the given status: the finish hooks
\* run, last entry first, and every entry counts as executed.
FinishResult(status) ==
    /\ phase = "run"
    /\ nops > 0
    /\ LET f == result_finish(result, Len(result), senv, status, store, now) IN
       /\ last' = [kind |-> "finish", status |-> status, before |-> store,
                   calls |-> f.calls,
                   marks |-> {result[i].ctx : i \in pending_marks(result)}]
       /\ store' = f.store
    /\ runs' = runs \cup { run_record(result[i].ctx, status, now, ndeliv) :
                             i \in pending_marks(result) }
    /\ result' = mark_executed(result)
    /\ phase' = "done"
    /\ UNCHANGED << now, senv, msgdata, nscript, nops, ndeliv, commits, msgctx,
                    script, checks, interp, lda, procs, tst, flag_vars >>

\* After a successful script the next one of the chain, which holds the
\* remaining tests, runs on the same message context and result.
NextDuplicateScript ==
    /\ phase = "done"
    /\ last.kind = "finish"
    /\ last.status = SIEVE_EXEC_OK
    /\ nscript < MaxScripts
    /\ nops < Len(script)
    /\ nscript' = nscript + 1
    /\ phase' = "run"
    /\ last' = [kind |-> "script"]
    /\ UNCHANGED << now, store, senv, msgdata, result, nops, ndeliv, commits,
                    msgctx, runs, script, checks, interp, lda, procs, tst,
                    flag_vars >>

\* The delivery is over: the message context is released.
EndDuplicateDelivery ==
    /\ phase = "done"
    /\ phase' = "idle"
    /\ result' = << >>
    /\ msgctx' = NoContext
    /\ nscript' = 0
    /\ nops' = 0
    /\ last' = [kind |-> "end"]
    /\ runs' = runs_summary(runs)
    /\ checks' = << >>
    /\ UNCHANGED << now, store, senv, msgdata, ndeliv, commits, script, interp, lda, procs, tst,
                    flag_vars >>

\* Successive deliveries whose scripts evaluate duplicate tests.
NextDuplicate ==
    \/ Tick
    \/ DeliverDuplicate
    \/ RunDuplicateTest
    \/ \E status \in ExecStatuses : FinishResult(status)
    \/ NextDuplicateScript
    \/ EndDuplicateDelivery

SpecDuplicate == InitDuplicate /\ [][NextDuplicate]_vars

\* The interpreter stands before an ADDRESS operation.
InitAddress ==
    /\ now = 0
    /\ store = {}
    /\ senv = FullEnv
    /\ msgdata = NoMessage
    /\ phase = "idle"
    /\ result = << >>
    /\ nscript = 0
    /\ nops = 0
    /\ ndeliv = 0
    /\ last = [kind |-> "none"]
    /\ commits = << >>
    /\ msgctx = NoContext
    /\ runs = {}
    /\ script = << >>
    /\ checks = << >>
    /\ interp \in { interpreter(address_code(o, h, k), m, r) :
                      o \in AddressOptionals, h \in HeaderLists,
                      k \in KeyLists, m \in AddressMails, r \in BOOLEAN }
    /\ lda = plugin_unloaded
    /\ procs = NoProcs
    /\ tst = NoTest
    /\ imapflags = NoFlags

\* The interpreter executes the ADDRESS operation: on success the
\* test-result register is set, on failure the run stops.
ExecuteAddressTest ==
    /\ interp.state = "ready"
    /\ LET out == tst_address_opcode_execute(interp.code, interp.mail) IN
       interp' = [state |-> IF out.ret THEN "done" ELSE "failed",
                  code |-> interp.code, mail |-> interp.mail,
                  test_result |-> IF out.set THEN out.matched
                                  ELSE interp.test_result,
                  before |-> interp.test_result,
                  out |-> out]
    /\ UNCHANGED << now, store, senv, msgdata, phase, result, nscript, nops,
                    ndeliv, last, commits, duplicate_vars, lda_vars, process_vars, compile_vars,
                    flag_vars >>

NextAddress == ExecuteAddressTest

SpecAddress == InitAddress /\ [][NextAddress]_vars

\* The process has no Sieve plugin loaded.
InitLda ==
    /\ now = 0
    /\ store = {}
    /\ senv = FullEnv
    /\ msgdata = NoMessage
    /\ phase = "idle"
    /\ result = << >>
    /\ nscript = 0
    /\ nops = 0
    /\ ndeliv = 0
    /\ last = [kind |-> "none"]
    /\ commits = << >>
    /\ msgctx = NoContext
    /\ runs = {}
    /\ script = << >>
    /\ checks = << >>
    /\ interp = NoInterp
    /\ lda = plugin_unloaded
    /\ procs = NoProcs
    /\ tst = NoTest
    /\ imapflags = NoFlags

\* While the plugin is not loaded the host, or another plugin, sets the
\* deliver hook.
HostSetsHook(h) ==
    /\ lda.pc = "unloaded"
    /\ lda.plugin.deliver_mail # h
    /\ lda' = [lda EXCEPT !.plugin.deliver_mail = h, !.host_hook = h]
    /\ UNCHANGED << now, store, senv, msgdata, phase, result, nscript, nops,
                    ndeliv, last, commits, duplicate_vars, test_vars,
                    process_vars, compile_vars, flag_vars >>

\* The host loads the plugin: sieve_plugin_init runs its next statement.
PluginInit ==
    /\ lda.pc \in {"unloaded", "init"}
    /\ LET n == lda.stmt + 1 IN
       lda' = [lda EXCEPT
                 !.plugin = sieve_plugin_init(lda.plugin, n),
                 !.pc = IF n = 3 THEN "loaded" ELSE "init",
                 !.stmt = IF n = 3 THEN 0 ELSE n]
    /\ UNCHANGED << now, store, senv, msgdata, phase, result, nscript, nops,
                    ndeliv, last, commits, duplicate_vars, test_vars,
                    process_vars, compile_vars, flag_vars >>

\* The host unloads the plugin: sieve_plugin_deinit runs its next statement.
PluginDeinit ==
    /\ lda.pc \in {"loaded", "deinit"}
    /\ LET n == lda.stmt + 1 IN
       lda' = [lda EXCEPT
                 !.plugin = sieve_plugin_deinit(lda.plugin, n),
                 !.pc = IF n = 2 THEN "unloaded" ELSE "deinit",
                 !.stmt = IF n = 2 THEN 0 ELSE n]
    /\ UNCHANGED << now, store, senv, msgdata, phase, result, nscript, nops,
                    ndeliv, last, commits, duplicate_vars, test_vars,
                    process_vars, compile_vars, flag_vars >>

\* The host delivers a mail through the hook the plugin installed.
DeliverMail(env, fs, open_ok, exec_ret) ==
    /\ lda.pc = "loaded"
    /\ lda.plugin.deliver_mail = lda_sieve_deliver_mail_hook
    /\ lda' = [lda EXCEPT !.delivery =
                 [set |-> TRUE, env |-> env, fs |-> fs, open_ok |-> open_ok,
                  exec_ret |-> exec_ret,
                  out |-> lda_sieve_deliver_mail(env, fs, open_ok, exec_ret)]]
    /\ UNCHANGED << now, store, senv, msgdata, phase, result, nscript, nops,
                    ndeliv, last, commits, duplicate_vars, test_vars,
                    process_vars, compile_vars, flag_vars >>

NextLda ==
    \/ \E h \in HostHooks : HostSetsHook(h)
    \/ PluginInit
    \/ PluginDeinit
    \/ \E env \in LdaEnvs, fs \in FileSystems, open_ok \in BOOLEAN,
          exec_ret \in ExecReturns : DeliverMail(env, fs, open_ok, exec_ret)

SpecLda == InitLda /\ [][NextLda]_vars

(***************************************************************************)
(* Properties                                                              *)
(***************************************************************************)

\* The last step committed a vacation action.
VacationCommitted == last.kind = "commit"

\* An earlier commit of this history replied to the sender of the message
\* now committed, for the same handle, and its mark has not expired yet.
EarlierReply(c) ==
    /\ c.delivery < ndeliv
    /\ c.return_path = last.msgdata.return_path
    /\ c.handle = last.ctx.handle
    /\ now < c.time + c.days * DaySecs

\* C1: in an environment with SMTP and the duplicate store, of two deliveries
\* from the same return path running vacation with the same handle, every
\* other reply condition holding: the commit of the first (no live mark for
\* the pair yet) opens one SMTP session and records a mark for (return path,
\* handle) that expires days later; the commit of the second, before that
\* mark expires, opens no SMTP session, logs "discarded duplicate" and
\* reports success.
C1_SecondDeliveryIsDiscarded ==
    senv = FullEnv =>
        /\ \A i \in 1..Len(commits) :
                commits[i].sessions = 1 /\ commits[i].marked
        /\ ( /\ VacationCommitted
             /\ reply_conditions(last.msgdata, last.ctx)
             /\ \E i \in 1..Len(commits) : EarlierReply(commits[i]) )
           => /\ last.out.smtp = << >>
              /\ last.out.log = <<"discarded duplicate vacation response">>
              /\ last.out.ret = TRUE
              /\ last.out.store = last.before

C1_Witness ==
    /\ senv = FullEnv
    /\ VacationCommitted
    /\ reply_conditions(last.msgdata, last.ctx)
    /\ \E i \in 1..Len(commits) : EarlierReply(commits[i])
    /\ last.out.smtp = << >>

\* The last step executed a VACATION operation whose operands were all
\* read, so that the action was built and handed to the result.
RanVacation == last.kind = "vacation" /\ last.out.act.def = "vacation"

\* The last step handed an action to sieve_result_add_action.
AddCalled == RanVacation \/ last.kind = "other"
NewDef == IF last.kind = "vacation" THEN "vacation" ELSE last.def
AddRet == IF last.kind = "vacation" THEN last.out.add ELSE last.add.ret
AddResult == IF last.kind = "vacation" THEN last.out.result ELSE last.add.result
AddErrors == IF last.kind = "vacation" THEN last.out.errors ELSE last.add.errors

\* The errors the duplicate/conflict hooks reported.
HookErrors == SelectSeq(AddErrors, LAMBDA e : e.kind \in {"duplicate", "conflict"})

\* The response-sending entries of a result.
Senders(res) ==
    {i \in 1..Len(res) : "SENDS_RESPONSE" \in action_flags(res[i].def)}

FirstOf(S) == CHOOSE k \in S : \A j \in S : k <= j

\* C4 as stated: adding a response-sending action B to a result that holds a
\* response-sending action A returns an error (ActionConflict).
C4_AlwaysConflict ==
    ( /\ AddCalled
      /\ "SENDS_RESPONSE" \in action_flags(NewDef)
      /\ Senders(last.before) # {} )
    => AddRet < 0

\* C4 amended: a result never holds two response-sending actions; adding a
\* response-sending action B to a result that holds a response-sending
\* action A leaves the result as it was and returns an error (-1, with a
\* runtime error) when A was not executed yet, and 1 (not an error, nothing
\* reported) when A was executed by a preceding script of the chain.
C4_ConflictUnlessExecuted ==
    /\ Cardinality(Senders(result)) <= 1
    /\ ( /\ AddCalled
         /\ "SENDS_RESPONSE" \in action_flags(NewDef)
         /\ Senders(last.before) # {} )
       => /\ AddResult = last.before
          /\ IF \E i \in Senders(last.before) : ~last.before[i].executed
             THEN AddRet = -1 /\ Len(HookErrors) = 1
             ELSE AddRet = 1 /\ HookErrors = << >>

C4_Witness ==
    /\ RanVacation
    /\ Senders(last.before) # {}
    /\ \A i \in Senders(last.before) :
            last.before[i].executed /\ last.before[i].def = "reject"
    /\ AddRet = 1

\* C5: for a vacation action B handed to the result, with A the action of
\* the result that sends a response: when A was executed by a preceding
\* script the hook (check_duplicate for a vacation A, check_conflict
\* otherwise) answers 1 and reports nothing; when A was not executed it
\* answers -1 and reports one runtime error at B's location that names A's
\* location; against actions that send no response check_conflict answers 0
\* and B is appended.
C5_HookAnswers ==
    RanVacation =>
        LET B == last.out.act
            S == Senders(last.before)
        IN IF S = {}
           THEN /\ AddRet = 0
                /\ HookErrors = << >>
                /\ AddResult = Append(last.before, B)
           ELSE LET A == last.before[FirstOf(S)] IN
                IF A.executed
                THEN AddRet = 1 /\ HookErrors = << >>
                ELSE /\ AddRet = -1
                     /\ HookErrors =
                          << runtime_error(
                               IF A.def = "vacation" THEN "duplicate" ELSE "conflict",
                               B.location, A.location) >>

C5_Witness ==
    /\ RanVacation
    /\ Len(last.before) = 1
    /\ last.before[1].def = "vacation"
    /\ ~last.before[1].executed
    /\ last.before[1].location # last.out.act.location
    /\ AddRet = -1

C5_WitnessNoResponse ==
    /\ RanVacation
    /\ last.before # << >>
    /\ Senders(last.before) = {}
    /\ AddRet = 0

\* The vacation action already in the result when another one is added.
Vacations(res) == {i \in 1..Len(res) : res[i].def = "vacation"}

\* C6 as stated: a vacation action B added to a result holding a vacation
\* action A is coalesced (1, no error) when the contexts are equal, and is
\* reported as DuplicateAction (-1) otherwise.
C6_CoalescedByContext ==
    (RanVacation /\ Vacations(last.before) # {}) =>
        LET A == last.before[FirstOf(Vacations(last.before))]
            B == last.out.act
        IN IF A.ctx = B.ctx
           THEN AddRet = 1 /\ HookErrors = << >>
           ELSE AddRet = -1 /\ HookErrors # << >>

\* C6 amended: a vacation action B added to a result holding a vacation
\* action A is never appended, and the executed flag of A decides, not the
\* contexts: when A was not executed yet a duplicate error is reported and
\* -1 returned, also for equal contexts; when A was executed by a preceding
\* script B is dropped without error (1), also for different contexts.
C6_CoalescedByExecuted ==
    (RanVacation /\ Vacations(last.before) # {}) =>
        LET A == last.before[FirstOf(Vacations(last.before))]
            B == last.out.act
        IN /\ AddResult = last.before
           /\ IF A.executed
              THEN AddRet = 1 /\ HookErrors = << >>
              ELSE /\ AddRet = -1
                   /\ Len(HookErrors) = 1
                   /\ HookErrors[1].kind = "duplicate"

C6_Witness ==
    /\ RanVacation
    /\ Vacations(last.before) # {}
    /\ LET A == last.before[FirstOf(Vacations(last.before))] IN
       /\ ~A.executed
       /\ A.ctx = last.out.act.ctx
    /\ AddRet = -1

\* The number given with :days in a command's arguments, -1 without :days.
CommandDays(args) ==
    IF \E i \in 1..(Len(args) - 1) :
            args[i].type = "tag" /\ args[i].id = "days" /\ args[i + 1].type = "number"
    THEN LET i == CHOOSE k \in 1..(Len(args) - 1) :
                    args[k].type = "tag" /\ args[k].id = "days"
         IN args[i + 1].num
    ELSE -1

\* The days operand of a VACATION operation, -1 when it has none.
OperandDays(code) ==
    IF \E i \in 1..(Len(code) - 1) :
            code[i] = opr_optional_code(OPT_DAYS) /\ code[i + 1].t = "number"
    THEN LET i == CHOOSE k \in 1..(Len(code) - 1) :
                    code[k] = opr_optional_code(OPT_DAYS)
         IN code[i + 1].v
    ELSE -1

\* C7: every vacation action of the result has days >= 1: a command's
\* ":days 0" reaches the binary as 1, a days operand n is taken as 1 when it
\* is 0 and as n otherwise, and without a days operand days is 7; every mark
\* a vacation commit writes expires strictly after the time of the commit.
C7_DaysAtLeastOne ==
    /\ \A i \in 1..Len(result) :
            result[i].def = "vacation" => result[i].ctx.days >= 1
    /\ RanVacation =>
        LET n == OperandDays(last.src.code)
            days == last.out.act.ctx.days
        IN /\ days >= 1
           /\ CommandDays(last.src.cmd.args) = 0 => n = 1
           /\ CommandDays(last.src.cmd.args) > 0 => n = CommandDays(last.src.cmd.args)
           /\ n = 0 => days = 1
           /\ n > 0 => days = n
           /\ n = -1 => days = DEFAULT_DAYS
    /\ VacationCommitted =>
        \A e \in last.out.store \ last.before : e.expire > now

C7_Witness ==
    /\ VacationCommitted
    /\ last.ctx.days = 1
    /\ last.out.store # last.before
    /\ now > 0

C7_WitnessOperandZero ==
    /\ RanVacation
    /\ OperandDays(last.src.code) = 0
    /\ last.out.act.ctx.days = 1

C7_WitnessCommandZero ==
    /\ RanVacation
    /\ CommandDays(last.src.cmd.args) = 0
    /\ last.out.act.ctx.days = 1

\* The commit got as far as sending: nothing discarded the reply.
ReplyDue ==
    /\ VacationCommitted
    /\ reply_conditions(last.msgdata, last.ctx)
    /\ ~(senv.duplicate_check /\ replied_before(last.before, last.msgdata, last.ctx, now))

\* C8: when the script environment lacks smtp_open or smtp_close, the commit
\* of a vacation action is a no-op with a warning: a warning is issued, no
\* SMTP session is opened, the duplicate store is left unchanged and the
\* commit reports success.
C8_NoSmtpIsNoOp ==
    (ReplyDue /\ (~senv.smtp_open \/ ~senv.smtp_close)) =>
        /\ last.out.warnings # << >>
        /\ last.out.smtp = << >>
        /\ last.out.store = last.before
        /\ last.out.ret = TRUE

\* The :from operand of a VACATION operation, when it has one that
\* sieve_address_normalize rejects.
HasInvalidFrom(code) ==
    \E i \in 1..(Len(code) - 1) :
        /\ code[i] = opr_optional_code(OPT_FROM)
        /\ code[i + 1].t = "string"
        /\ ~sieve_address_valid(code[i + 1].v)

\* C9: when executing the vacation operation finds that the :from address
\* cannot be normalized, a runtime error is reported at the command's source
\* line, execution returns a failure code and no vacation action is added to
\* the result.
C9_InvalidFromAborts ==
    ( /\ last.kind = "vacation"
      /\ HasInvalidFrom(last.src.code)
      /\ last.out.ret # SIEVE_EXEC_BIN_CORRUPT )
    => /\ \E i \in 1..Len(last.out.errors) :
            /\ last.out.errors[i].kind = "from"
            /\ last.out.errors[i].at = last.src.code[1].v
       /\ last.out.ret # SIEVE_EXEC_OK
       /\ last.out.result = last.before

\* The last step ran the finish hooks on at least one duplicate_mark action.
MarksFinished == last.kind = "finish" /\ last.marks # {}

\* C2: the finish hook of the duplicate_mark action writes a mark to the
\* duplicate store if and only if the status it receives is OK: with OK every
\* action writes its key with the expiry now + period, with any other status
\* nothing is written and the store is left as it was.
C2_MarkWrittenIffOk ==
    MarksFinished =>
        IF last.status = SIEVE_EXEC_OK
        THEN /\ Len(last.calls) = Cardinality(last.marks)
             /\ \A d \in last.marks :
                    /\ [key |-> d.hash, expire |-> now + d.period] \in store
                    /\ \E i \in 1..Len(last.calls) :
                           last.calls[i] = [key |-> d.hash,
                                            expire |-> now + d.period]
        ELSE /\ last.calls = << >>
             /\ store = last.before

\* A successful run whose finish hook wrote a mark that was not there.
C2_Witness ==
    /\ MarksFinished
    /\ last.status = SIEVE_EXEC_OK
    /\ last.calls # << >>
    /\ store # last.before

\* A failed run with a planned mark, the store already holding an entry.
C2_WitnessNotOk ==
    /\ MarksFinished
    /\ last.status # SIEVE_EXEC_OK
    /\ last.before # {}

\* The last step evaluated a duplicate test that has a value, with the
\* duplicate store available.
TestEvaluated ==
    /\ last.kind = "duplicate"
    /\ last.test.value # NULL
    /\ sieve_action_duplicate_check_available(senv)

\* The finished runs of earlier deliveries that planned a mark for the key
\* of the test just evaluated.
EarlierRuns ==
    {r \in runs :
        /\ r.hash = ext_duplicate_hash(last.test.handle, last.test.value,
                                       last.test.last)
        /\ r.delivery < ndeliv}

\* C3: evaluating the duplicate test leaves the duplicate store as it is and
\* adds at most a duplicate_mark action to the result; when the runs of the
\* earlier deliveries with the same handle, value and :last setting all
\* finished with a status other than OK the test says not duplicate, and
\* when one of them finished OK and its period has not expired the test
\* says duplicate.
C3_MarkDeferredToFinish ==
    TestEvaluated =>
        /\ store = last.store
        /\ \/ last.out.result = last.before
           \/ /\ Len(last.out.result) = Len(last.before) + 1
              /\ SubSeq(last.out.result, 1, Len(last.before)) = last.before
              /\ last.out.result[Len(last.out.result)].def = "duplicate_mark"
        /\ (EarlierRuns # {} /\ \A r \in EarlierRuns : ~r.ok)
               => last.out.ret = 0
        /\ (\E r \in EarlierRuns : r.ok /\ now < r.expire)
               => last.out.ret = 1

\* A later delivery after a first run that failed: not a duplicate.
C3_Witness ==
    /\ TestEvaluated
    /\ EarlierRuns # {}
    /\ \A r \in EarlierRuns : ~r.ok
    /\ last.out.ret = 0

\* A later delivery after a successful first run, within the period.
C3_WitnessDuplicate ==
    /\ TestEvaluated
    /\ \E r \in EarlierRuns : r.ok /\ now < r.expire
    /\ last.out.ret = 1
    /\ now > 0

\* The optional-operand block that selects i;ascii-casemap, :is and :all.
casemap_is_all ==
    << opt_address_part(all_address_part), opt_match_type(is_match_type),
       opt_comparator(i_ascii_casemap_comparator) >>

\* C10: an address test whose optional-operand block selects nothing
\* executes with comparator i;ascii-casemap, match type :is and address part
\* :all, so it leaves in the test-result register what the same test leaves
\* when its block selects these three.
C10_DefaultsAreCasemapIsAll ==
    (interp.state = "done" /\ interp.code.optionals = << >>) =>
        interp.test_result =
            tst_address_opcode_execute(
                [interp.code EXCEPT !.optionals = casemap_is_all],
                interp.mail).matched

\* The header names the header list yields: its items up to the first one
\* that cannot be read.
NamedHeaders ==
    LET items == interp.code.hdr_list.items IN
    { i \in 1..Len(items) : \A h \in 1..i : items[h].ok }

\* The values of the named headers the message store hands out, as pairs of
\* header-list position and value position.
HeaderValues ==
    LET items == interp.code.hdr_list.items
        got(i) == mail_get_headers(interp.mail, items[i].str)
    IN UNION { { << i, j >> : j \in 1..Len(got(i).headers) } :
                 i \in { h \in NamedHeaders : got(h).ret >= 0 } }

ValueAt(p) ==
    mail_get_headers(interp.mail, interp.code.hdr_list.items[p[1]].str).headers[p[2]]

\* The values that match under the objects the test executed with.
MatchingValues ==
    { p \in HeaderValues :
        sieve_address_match(interp.out.addrp,
            sieve_match_begin(interp.out.mtch, interp.out.cmp,
                              interp.code.key_list.items),
            ValueAt(p)) }

\* p comes no later than q in the order the headers are looked at.
NoLater(p, q) == p[1] < q[1] \/ (p[1] = q[1] /\ p[2] <= q[2])

\* The values up to and including the first matching one, or all of them.
ValuesToFeed ==
    IF MatchingValues = {} THEN HeaderValues
    ELSE { p \in HeaderValues : \A m \in MatchingValues : NoLater(p, m) }

\* C11: the address test sets the test-result register to true exactly when
\* some value of some header named in the header list matches (finalization
\* adds no match for :is and :contains); the values fed to the matcher are
\* the values of the named headers in order up to and including the first
\* matching one, so nothing is fed after it; and a header whose lookup fails
\* contributes no value and does not fail the test.
C11_AddressMatchesFirstValue ==
    (interp.state # "ready" /\ interp.code.hdr_list.ok
        /\ interp.code.key_list.ok
        /\ \A o \in 1..Len(interp.code.optionals) :
               interp.code.optionals[o].kind # "corrupt") =>
        /\ interp.state = "done"
        /\ interp.test_result = (MatchingValues # {})
        /\ Len(interp.out.fed) = Cardinality(ValuesToFeed)
        /\ \A p \in ValuesToFeed :
               interp.out.fed[Cardinality({ q \in ValuesToFeed : NoLater(q, p) })]
                   = ValueAt(p)

\* A test that matched on the first of two values of a header whose list
\* names a second header.
C11_Witness ==
    /\ interp.state = "done"
    /\ interp.test_result
    /\ Len(interp.out.fed) = 1
    /\ Cardinality(HeaderValues) > 2
    /\ Cardinality(NamedHeaders) = 2

\* A test that skipped a header whose lookup failed and matched on the next.
C11_WitnessLookupFailed ==
    /\ interp.state = "done"
    /\ interp.test_result
    /\ \E i \in NamedHeaders :
           mail_get_headers(interp.mail, interp.code.hdr_list.items[i].str).ret < 0

\* The last step evaluated a duplicate test that had a value while duplicate
\* checking was available.
DuplicateChecked ==
    /\ last.kind = "duplicate"
    /\ last.test.value # NULL
    /\ sieve_action_duplicate_check_available(senv)

\* The earlier checks of this message that had a value and the handle and
\* :last of the test just evaluated.
EarlierChecks ==
    { i \in 1..(Len(checks) - 1) :
        /\ checks[i].test.value # NULL
        /\ checks[i].test.handle = last.test.handle
        /\ checks[i].test.last = last.test.last }

\* The duplicate_mark entries of the result.
DuplicateMarks == { i \in 1..Len(result) : result[i].def = "duplicate_mark" }

\* C12: within one message context, chained scripts included, a duplicate
\* check that repeats the handle and :last of an earlier check returns the
\* answer of the first such check, looks up nothing in the duplicate store
\* and adds no duplicate_mark; the result never holds two duplicate_mark
\* actions for the same handle and :last.
C12_RepeatedCheckIsCached ==
    /\ (DuplicateChecked /\ EarlierChecks # {}) =>
           LET first == CHOOSE i \in EarlierChecks :
                            \A j \in EarlierChecks : i <= j
           IN /\ last.out.ret = checks[first].ret
              /\ last.out.lookups = << >>
              /\ last.out.result = last.before
    /\ \A i, j \in DuplicateMarks :
           (result[i].ctx.handle = result[j].ctx.handle
               /\ result[i].ctx.last = result[j].ctx.last) => i = j

\* A chained script repeats a check whose mark the script before it wrote:
\* the store now holds the entry, the repeated check still says "new".
C12_Witness ==
    /\ DuplicateChecked
    /\ EarlierChecks # {}
    /\ nscript = 2
    /\ last.out.ret = 0
    /\ \E e \in store :
           e.key = ext_duplicate_hash(last.test.handle, last.test.value,
                                      last.test.last)

\* The duplicate test just evaluated left the result, the per-message cache
\* and the duplicate store as they were and looked nothing up.
DuplicateTestInert ==
    /\ last.out.ret = 0
    /\ last.out.lookups = << >>
    /\ result = last.before
    /\ msgctx = last.cache
    /\ store = last.store

\* C13: when duplicate checking is not available the duplicate test warns
\* and answers 0 without planning a mark, touching the duplicate store or
\* changing the per-message cache; when checking is available and the value
\* is absent it does the same without a warning.
C13_UnavailableDegrades ==
    last.kind = "duplicate" =>
        /\ ~sieve_action_duplicate_check_available(senv) =>
               DuplicateTestInert /\ Len(last.out.warnings) = 1
        /\ (sieve_action_duplicate_check_available(senv)
               /\ last.test.value = NULL) =>
               DuplicateTestInert /\ last.out.warnings = << >>

\* A test with a value evaluated where checking is not available, after an
\* earlier delivery.
C13_Witness ==
    /\ last.kind = "duplicate"
    /\ ~sieve_action_duplicate_check_available(senv)
    /\ last.test.value # NULL
    /\ ndeliv = 2

\* A test without a value evaluated after a test that filled the cache.
C13_WitnessNoValue ==
    /\ last.kind = "duplicate"
    /\ sieve_action_duplicate_check_available(senv)
    /\ last.test.value = NULL
    /\ msgctx.set

\* C14: when the source line, an optional code, the operand of an optional
\* code, the reason or the handle of a VACATION operation cannot be read, or
\* an optional code other than 0, DAYS, SUBJECT, FROM, ADDRESSES and MIME is
\* read, execution returns BinaryCorrupt and the result list is as it was.
C14_CorruptOperandsAreRejected ==
    (last.kind = "vacation" /\ last.src.code \in CorruptBinaries) =>
        /\ last.out.ret = SIEVE_EXEC_BIN_CORRUPT
        /\ last.out.result = last.before
        /\ last.out.act = no_action

\* An operation with an optional code that does not exist, executed on a
\* result that already holds an action.
C14_Witness ==
    /\ last.kind = "vacation"
    /\ last.src.code = bin_unknown_code
    /\ last.before # << >>
    /\ last.out.ret = SIEVE_EXEC_BIN_CORRUPT

\* An operation without a handle operand, executed on a result that already
\* holds an action.
C14_WitnessNoHandle ==
    /\ last.kind = "vacation"
    /\ last.src.code = bin_no_handle
    /\ last.before # << >>

\* The last step executed a VACATION operation generated from a command of
\* the script.
RanGenerated == last.kind = "vacation" /\ last.src.cmd.args # << >>

\* What the script wrote: the tags of the command and their parameters.
HasTag(args, id) == \E i \in 1..Len(args) : args[i] = arg_tag(id)
TagParam(args, id) ==
    args[(CHOOSE i \in 1..Len(args) : args[i] = arg_tag(id)) + 1]

\* The action context the command of the script asks for.
ScriptContext(args, handle) ==
    [reason |-> args[Len(args)].str,
     days |-> IF ~HasTag(args, "days") THEN DEFAULT_DAYS
              ELSE IF TagParam(args, "days").num = 0 THEN 1
              ELSE TagParam(args, "days").num,
     subject |-> IF HasTag(args, "subject") THEN TagParam(args, "subject").str
                 ELSE NULL,
     handle |-> IF HasTag(args, "handle") THEN TagParam(args, "handle").str
                ELSE handle,
     mime |-> HasTag(args, "mime"),
     from |-> IF HasTag(args, "from") THEN TagParam(args, "from").str ELSE NULL,
     from_normalized |->
        IF HasTag(args, "from") THEN TagParam(args, "from").str ELSE NULL,
     addresses |-> IF HasTag(args, "addresses")
                   THEN TagParam(args, "addresses").lst ELSE NULL_LIST]

\* The layout of a VACATION operation behind its opcode: the source line,
\* an optional block that begins at the marker and whose only code 0 is its
\* last operand, the reason, the handle.
VacationLayout(c) ==
    LET n == Len(c) IN
    /\ n >= 3
    /\ { i \in 1..n : c[i].t = "line" } = {1}
    /\ c[n - 1].t = "string" /\ c[n].t = "string"
    /\ \/ n = 3
       \/ /\ n > 4
          /\ { i \in 1..n : c[i].t = "optional" } = {2}
          /\ { i \in 1..n : c[i] = opr_optional_code(OPT_END) } = {n - 2}
    /\ { i \in 2..(n - 2) : c[i].t = "string" } \subseteq
           { i \in 2..(n - 2) : c[i - 1].t = "optcode" }

\* C15: the operands generated for a vacation command are the source line,
\* the optional block ended by code 0, the reason and the handle, each once;
\* execution and dump read every operand of them, in this order, and both
\* reject what the other rejects; the action built carries the source line
\* and the values the script wrote, whatever the order of its tags.
C15_GenerateExecuteDumpAgree ==
    /\ last.kind = "vacation" =>
           LET d == ext_vacation_operation_dump(last.src.code) IN
           /\ d.ok = (last.out.ret # SIEVE_EXEC_BIN_CORRUPT)
           /\ d.ok =>
                /\ d.pos = Len(last.src.code) + 1
                /\ d.lines[Len(d.lines)].opr.v = last.out.act.ctx.handle
                /\ d.lines[Len(d.lines) - 1].opr.v = last.out.act.ctx.reason
                /\ d.lines[1].opr.v = last.out.act.location
    /\ RanGenerated =>
           LET c == last.src.code IN
           /\ VacationLayout(c)
           /\ last.out.ret # SIEVE_EXEC_BIN_CORRUPT
           /\ last.out.act.location = last.src.cmd.line
           /\ last.out.act.ctx = ScriptContext(last.src.cmd.args, c[Len(c)].v)

\* A command whose tags come in another order than their optional codes
\* was generated and executed.
C15_Witness ==
    /\ RanGenerated
    /\ last.src.cmd = cmd_reordered
    /\ last.out.ret = SIEVE_EXEC_OK

\* A command with :handle before :days.
C15_WitnessHandleFirst ==
    /\ RanGenerated
    /\ last.src.cmd = cmd_days2
    /\ last.out.act.ctx.days = 2
    /\ last.out.act.ctx.handle = handle_h

\* A mail was delivered through the plugin's hook.
Delivered == lda.delivery.set

\* Sieve is disabled for the delivery: SIEVE is empty, or it is not set and
\* the home directory is not known.
SieveDisabled(env) ==
    \/ env["SIEVE"] = str_empty
    \/ env["SIEVE"] = NULL /\ env["HOME"] = NULL

\* The path of the per-user script: SIEVE, below HOME when it is relative,
\* and .dovecot.sieve in HOME when SIEVE is not set.
UserScriptPath(env) ==
    IF env["SIEVE"] # NULL /\ env["SIEVE"][1] = "/" THEN env["SIEVE"]
    ELSE IF env["HOME"] = NULL THEN NULL
    ELSE IF env["SIEVE"] # NULL
         THEN env["HOME"] \o str_slash \o env["SIEVE"]
         ELSE env["HOME"] \o <<"/",".","d","o","v","e","c","o","t",".","s","i","e","v","e">>

\* The global script: SIEVE_GLOBAL_PATH, else GLOBAL_SCRIPT_PATH.
GlobalScriptPath(env) ==
    IF env["SIEVE_GLOBAL_PATH"] # NULL THEN env["SIEVE_GLOBAL_PATH"]
    ELSE env["GLOBAL_SCRIPT_PATH"]

\* C16: unless Sieve is disabled, the script selected is the global script
\* exactly when stat fails on the per-user script path and the per-user
\* script otherwise; a per-user script that exists is always the one
\* selected.
C16_GlobalOnlyWithoutUserScript ==
    (Delivered /\ ~SieveDisabled(lda.delivery.env)) =>
        LET d == lda.delivery
            user == UserScriptPath(d.env)
        IN /\ stat(d.fs, user).ret < 0 =>
                  d.out.sel.path = GlobalScriptPath(d.env)
           /\ stat(d.fs, user).ret = 0 => d.out.sel.path = user
           /\ user \in d.fs.files => d.out.sel.path = user

\* C17: when SIEVE is empty, or not set while HOME is unknown, the deliver
\* hook returns 0 and neither opens nor executes a script, whether or not a
\* global script is configured.
C17_DisabledRunsNothing ==
    (Delivered /\ SieveDisabled(lda.delivery.env)) =>
        /\ lda.delivery.out.ret = 0
        /\ lda.delivery.out.sel.path = NULL
        /\ lda.delivery.out.run.opened = << >>
        /\ lda.delivery.out.run.executed = 0

\* A delivery with SIEVE empty while a global script is configured.
C17_Witness ==
    /\ Delivered
    /\ lda.delivery.env["SIEVE"] = str_empty
    /\ lda.delivery.env["SIEVE_GLOBAL_PATH"] # NULL
    /\ lda.delivery.out.ret = 0

\* A delivery with SIEVE and HOME not set while a global script is
\* configured.
C17_WitnessNoHome ==
    /\ Delivered
    /\ lda.delivery.env["SIEVE"] = NULL
    /\ lda.delivery.env["HOME"] = NULL
    /\ lda.delivery.env["GLOBAL_SCRIPT_PATH"] # NULL
    /\ lda.delivery.out.ret = 0

\* C18: the deliver hook returns 0 exactly when no script path was selected,
\* -1 exactly when a path was selected and the script could not be opened
\* or sieve_execute returned a negative code, and 1 exactly when the script
\* was opened and sieve_execute returned a non-negative code; a script that
\* could not be opened is not executed.
C18_HookReturnsOutcome ==
    Delivered =>
        LET d == lda.delivery
            selected == d.out.sel.path # NULL
            opened == d.out.run.sbin_opened = 1
            executed == d.out.run.executed = 1
        IN /\ d.out.ret \in {-1, 0, 1}
           /\ (d.out.ret = 0) = ~selected
           /\ (d.out.ret = -1) =
                  (selected /\ (~opened \/ (executed /\ d.exec_ret < 0)))
           /\ (d.out.ret = 1) = (opened /\ executed /\ d.exec_ret >= 0)
           /\ selected => (opened = d.open_ok)
           /\ executed => opened

\* A script was opened and sieve_execute returned 0.
C18_Witness ==
    /\ Delivered
    /\ lda.delivery.out.run.executed = 1
    /\ lda.delivery.exec_ret = 0
    /\ lda.delivery.out.ret = 1

\* A script that could not be opened.
C18_WitnessNotOpened ==
    /\ Delivered
    /\ lda.delivery.out.sel.path # NULL
    /\ ~lda.delivery.open_ok
    /\ lda.delivery.out.ret = -1

\* C19: the plugin's hook is the deliver hook only while the engine is
\* initialised: sieve_plugin_init has initialised the engine when it saves
\* the host's hook and installs its own, sieve_plugin_deinit has restored
\* the host's hook when it tears the engine down, and once the plugin is
\* unloaded the deliver hook is the one the host had set before.
C19_HookOnlyWhileInitialised ==
    LET p == lda.plugin IN
    /\ p.deliver_mail = lda_sieve_deliver_mail_hook => p.engine
    /\ lda.pc = "init" => p.engine /\ p.deliver_mail = lda.host_hook
    /\ (lda.pc = "init" /\ lda.stmt = 2) => p.next_deliver_mail = lda.host_hook
    /\ lda.pc = "loaded" =>
           /\ p.engine
           /\ p.deliver_mail = lda_sieve_deliver_mail_hook
           /\ p.next_deliver_mail = lda.host_hook
    /\ lda.pc = "deinit" => p.engine /\ p.deliver_mail = lda.host_hook
    /\ lda.pc = "unloaded" => ~p.engine /\ p.deliver_mail = lda.host_hook

\* The plugin was loaded over another plugin's hook, delivered a mail and
\* was unloaded.
C19_Witness ==
    /\ lda.pc = "unloaded"
    /\ Delivered
    /\ lda.host_hook = "other_deliver_mail"
    /\ lda.plugin.next_deliver_mail = "other_deliver_mail"

\* C20: when lda_sieve_run returns, every reference to the error handler it
\* acquired and the script binary it opened have been released once.
C20_EverythingReleasedOnce ==
    (Delivered /\ lda.delivery.out.sel.path # NULL) =>
        /\ lda.delivery.out.run.ehandler_created = 1
        /\ lda.delivery.out.run.ehandler_unrefs = 1
        /\ lda.delivery.out.run.sbin_closed = lda.delivery.out.run.sbin_opened

\* The duplicate test just evaluated was the first one of its key for this
\* message: it looked into the duplicate store.
FirstDuplicateCheck == DuplicateChecked /\ last.out.lookups # << >>

\* The duplicate_mark action the test just evaluated plans.
PlannedMark ==
    action_entry("duplicate_mark", 0,
        act_duplicate_mark_data(last.test.handle, last.test.period,
            ext_duplicate_hash(last.test.handle, last.test.value,
                               last.test.last),
            last.test.last))

\* The verdicts a message context holds.
CachedVerdicts(rctx) ==
    IF rctx.set
    THEN [handles |-> rctx.handles, nohandle |-> rctx.nohandle_checked]
    ELSE [handles |-> << >>, nohandle |-> FALSE]

C26_WitnessNoMark ==
    /\ FirstDuplicateCheck
    /\ ~last.test.last
    /\ last.out.ret = 1
    /\ last.out.result = last.before

\* C27: a duplicate check is answered from the per-message cache only when
\* an earlier check of this message had the same handle and the same :last.
C27_CacheKeyedByHandleAndLast ==
    (DuplicateChecked /\ last.out.lookups = << >>) => EarlierChecks # {}

\* C30: a duplicate test with :last that finds no entry under the :last key
\* takes its verdict from the entry recorded without :last: it does not
\* answer "new" while the store holds a live entry under that key.
C30_LastFallsBackToPlainEntry ==
    (FirstDuplicateCheck /\ last.test.last /\ last.out.ret = 0) =>
        ~duplicate_check(last.store,
                         ext_duplicate_hash(last.test.handle, last.test.value,
                                            FALSE),
                         now)

\* The values of the header the message's storage hands out: none when the
\* message has no such header or the lookup fails.
HeadersFound(m, name) ==
    IF name \in DOMAIN m.mail.hdrs /\ name \notin m.mail.fail
    THEN m.mail.hdrs[name] ELSE << >>

\* s starts with the prefix p.
StartsWith(s, p) == Len(s) >= Len(p) /\ SubSeq(s, 1, Len(p)) = p

\* The return path is a system address: MAILER-DAEMON, LISTSERV or majordomo
\* (in any case) at its start, "-request@" inside, "owner-" at its start.
SystemSender(rp) ==
    \/ StartsWith(str_lcase(rp),
                  <<"m","a","i","l","e","r","-","d","a","e","m","o","n">>)
    \/ StartsWith(str_lcase(rp), <<"l","i","s","t","s","e","r","v">>)
    \/ StartsWith(str_lcase(rp), <<"m","a","j","o","r","d","o","m","o">>)
    \/ \E i \in 1..Len(rp) :
           StartsWith(SubSeq(rp, i, Len(rp)),
                      <<"-","r","e","q","u","e","s","t","@">>)
    \/ StartsWith(rp, <<"o","w","n","e","r","-">>)

\* The addresses the reply may be due to: the recipient and the :addresses.
MyAddresses(m, ctx) ==
    {m.to_address}
    \cup (IF ctx.addresses = NULL_LIST THEN {}
          ELSE {ctx.addresses[k] : k \in 1..Len(ctx.addresses)})

\* One of these addresses occurs in To, Cc, Bcc, Resent-To, Resent-Cc or
\* Resent-Bcc.
ExplicitlyAddressed(m, ctx) ==
    \E name \in {"to", "cc", "bcc", "resent-to", "resent-cc", "resent-bcc"} :
        LET values == HeadersFound(m, name) IN
        \E i \in 1..Len(values) : \E j \in 1..Len(values[i]) :
            /\ values[i][j].domain # NULL
            /\ values[i][j].mailbox \o <<"@">> \o values[i][j].domain
                   \in MyAddresses(m, ctx)

\* The conditions under which the commit of ctx for message m replies, the
\* duplicate store being st at the time of the commit.
ReplyWanted(m, ctx, env, st, time) ==
    /\ m.return_path # NULL /\ m.return_path # << >>
    /\ m.return_path # m.to_address
    /\ env.duplicate_check =>
           ~\E e \in st : /\ e.key = md5(m.return_path \o ctx.handle)
                          /\ e.expire > time
    /\ \A name \in {"list-id", "list-owner", "list-subscribe", "list-post",
                    "list-unsubscribe", "list-help", "list-archive"} :
           HeadersFound(m, name) = << >>
    /\ \A i \in 1..Len(HeadersFound(m, "auto-submitted")) :
           str_lcase(HeadersFound(m, "auto-submitted")[i]) = <<"n","o">>
    /\ \A i \in 1..Len(HeadersFound(m, "precedence")) :
           str_lcase(HeadersFound(m, "precedence")[i])
               \notin {<<"j","u","n","k">>, <<"b","u","l","k">>,
                       <<"l","i","s","t">>}
    /\ ~SystemSender(m.return_path)
    /\ ExplicitlyAddressed(m, ctx)

C22_WitnessOtherHandle ==
    /\ VacationCommitted
    /\ last.out.smtp # << >>
    /\ senv.duplicate_check
    /\ last.before # {}

C28_SuppressedReplyIsSilent ==
    ( /\ VacationCommitted
      /\ ~ReplyWanted(last.msgdata, last.ctx, senv, last.before, now) )
    => /\ last.out.ret = TRUE
       /\ last.out.smtp = << >>
       /\ last.out.store = last.before
       /\ store = last.before

\* A reply suppressed as a duplicate: the mark found stays as it was.
C28_Witness ==
    /\ VacationCommitted
    /\ last.out.log = <<"discarded duplicate vacation response">>
    /\ last.before # {}
    /\ store = last.before

\* A reply suppressed for a Precedence header that is not the first one and
\* not in lower case.
C28_WitnessPrecedence ==
    /\ VacationCommitted
    /\ Len(HeadersFound(last.msgdata, "precedence")) = 2
    /\ last.out.smtp = << >>

\* C29: every reply the vacation commit sends has the null envelope sender,
\* an Auto-Submitted header "auto-replied" and Precedence "bulk"; and the
\* commit of a vacation action for the delivery of such a reply (the second
\* delivery) sends no reply, whatever the recipient's script environment
\* and vacation command are.
C29_NoReplyToVacationReply ==
    VacationCommitted =>
        /\ \A i \in 1..Len(last.out.smtp) :
               /\ last.out.smtp[i].envelope_from = NULL
               /\ last.out.smtp[i].auto_submitted = str_auto_replied
               /\ last.out.smtp[i].precedence = str_bulk
        /\ ndeliv = 2 => last.out.smtp = << >> /\ last.out.ret = TRUE

\* The recipient of a vacation reply runs vacation in an environment that
\* could send: the commit discards the reply to the null sender.
C29_Witness ==
    /\ VacationCommitted
    /\ ndeliv = 2
    /\ senv = FullEnv
    /\ HeadersFound(last.msgdata, "auto-submitted") = << str_auto_replied >>
    /\ last.out.log = <<"discarded vacation reply to <>">>

\* The arguments of the header test behind its tags: the leading tags the
\* test knows are dropped, the comparator tag together with the string
\* behind it.
RECURSIVE BehindTags(_)
BehindTags(args) ==
    IF args = << >> \/ args[1].type # "tag" THEN args
    ELSE IF args[1].id \in {"is", "contains", "matches"}
    THEN BehindTags(Tail(args))
    ELSE IF /\ args[1].id = "comparator"
            /\ Len(args) >= 2
            /\ args[2].type = "string"
    THEN BehindTags(Tail(Tail(args)))
    ELSE args

\* The header test is well-formed: two positional arguments, each a string
\* or a string list, and no subtest.
HeaderTestWellFormed ==
    LET pos == BehindTags(tst.args) IN
    /\ Len(pos) = 2
    /\ \A i \in 1..2 : pos[i].type \in {"string", "string_list"}
    /\ tst.subtests = 0

\* The operand a string or string-list argument is carried as.
OperandOf(arg) ==
    IF arg.type = "string" THEN [t |-> "string", v |-> arg.str]
    ELSE [t |-> "stringlist", v |-> arg.lst]

C21_WitnessSecondArgument ==
    /\ tst.stage = "invalid"
    /\ Len(tst.args) = 2
    /\ tst.args[1].type = "string_list"
    /\ tst.args[2].type = "number"
    /\ tst.subtests = 0

\* A test with three string arguments was rejected.
C21_WitnessThreeArguments ==
    /\ tst.stage = "invalid"
    /\ Len(tst.args) = 3
    /\ \A i \in 1..3 : tst.args[i].type = "string"
    /\ tst.subtests = 0

\* The interpreters that sent a reply.
Replied == { p \in DOMAIN procs : procs[p].out.smtp # << >> }

CorruptItemReached ==
    /\ Cardinality(NamedHeaders) < Len(interp.code.hdr_list.items)
    /\ MatchingValues = {}

\* C36: when reading an item of the header list fails while the address
\* test executes, the operation reports failure and leaves the test-result
\* register alone; the register is set only when the whole header list was
\* read or a match ended the iteration.
C36_CorruptHeaderItemFails ==
    (interp.state # "ready" /\ interp.code.hdr_list.ok
        /\ interp.code.key_list.ok
        /\ CorruptItemReached
        /\ \A o \in 1..Len(interp.code.optionals) :
               interp.code.optionals[o].kind # "corrupt") =>
        /\ interp.state = "failed"
        /\ ~interp.out.set
        /\ interp.test_result = interp.before

\* The parameters the constructed handle is made of, as the script wrote
\* them: the reason, the :subject and :from values (NULL when the tag is
\* not there) and whether :mime is there.
AutoParams(args) ==
    << args[Len(args)].str,
       IF HasTag(args, "subject") THEN TagParam(args, "subject").str ELSE NULL,
       IF HasTag(args, "from") THEN TagParam(args, "from").str ELSE NULL,
       HasTag(args, "mime") >>

\* The handle constructed from these parameters.
AutoHandle(p) ==
    p[1] \o (IF p[2] # NULL THEN p[2] ELSE handle_empty_subject)
         \o (IF p[3] # NULL THEN p[3] ELSE handle_empty_from)
         \o (IF p[4] THEN handle_mime_enabled ELSE handle_mime_disabled)

\* The string operands a command is emitted with: the :subject and :from
\* values, the reason and the handle.
StringOperands(args) ==
    2 + (IF HasTag(args, "subject") THEN 1 ELSE 0)
      + (IF HasTag(args, "from") THEN 1 ELSE 0)

\* C31: the handle of a validated vacation command is the :handle value as
\* written when the tag is given, and then neither the tag nor its value
\* stays in the argument list (the value is emitted once, as the last
\* operand); otherwise it is the reason followed by the :subject value or
\* "<default-subject>", the :from value or "<default-from>", and "<MIME>" or
\* "<NO-MIME>". Commands that differ only in the order of their tags get the
\* same handle.
C31_HandleSelectedAtValidation ==
    RanGenerated =>
        LET args == last.src.cmd.args
            c == last.src.code
            v == vacation_validated(args)
        IN
        /\ c[Len(c)].v = IF HasTag(args, "handle")
                         THEN TagParam(args, "handle").str
                         ELSE AutoHandle(AutoParams(args))
        /\ \A i \in 1..Len(v.args) : v.args[i] # arg_tag("handle")
        /\ Len(v.args) = Len(args) - Cardinality({ id \in {"days", "subject",
               "from", "addresses"} : HasTag(args, id) })
               - (IF HasTag(args, "handle") THEN 2 ELSE 0)
        /\ Cardinality({ i \in 1..Len(c) : c[i].t = "string" })
               = StringOperands(args)
        /\ \A other \in VacationCommands :
               ( /\ vacation_validated(other.args).ok
                 /\ HasTag(other.args, "handle") = HasTag(args, "handle")
                 /\ HasTag(args, "handle") =>
                        TagParam(other.args, "handle") = TagParam(args, "handle")
                 /\ AutoParams(other.args) = AutoParams(args) ) =>
                   vacation_validated(other.args).data.handle = c[Len(c)].v

\* A command without :handle, written with :from before :subject, ran with
\* the handle constructed from its parameters.
C31_Witness ==
    /\ RanGenerated
    /\ last.src.cmd = cmd_reordered
    /\ last.out.ret = SIEVE_EXEC_OK
    /\ last.out.act.ctx.handle =
           reason_r \o subject_s \o addr_alias \o handle_mime_enabled

\* A command with :handle behind another tag ran with the handle it gives.
C31_WitnessHandleGiven ==
    /\ RanGenerated
    /\ last.src.cmd = cmd_addresses
    /\ last.out.ret = SIEVE_EXEC_OK
    /\ last.out.act.ctx.handle = handle_h

\* C32: the constructed handle is injective in (reason, subject, from,
\* mime): a command without :handle that differs in one of them from the
\* command that ran gets another handle than the one the action carries.
C32_AutoHandleInjective ==
    (RanGenerated /\ ~HasTag(last.src.cmd.args, "handle")) =>
        \A other \in VacationCommands :
            ( /\ vacation_validated(other.args).ok
              /\ ~HasTag(other.args, "handle")
              /\ AutoParams(other.args) # AutoParams(last.src.cmd.args) ) =>
                vacation_validated(other.args).data.handle
                    # last.out.act.ctx.handle

\* The commit opened an SMTP session that did not close.
CloseFailed ==
    /\ VacationCommitted
    /\ \E i \in 1..Len(last.out.smtp) : ~last.out.smtp[i].delivered

\* C33: the commit of a vacation action reports success whatever becomes of
\* the reply: when the SMTP session does not close, the failure is reported
\* as an error of the result and the commit still succeeds; without such a
\* failure the commit reports no error.
C33_CommitSucceedsWhateverSendDoes ==
    VacationCommitted =>
        /\ last.out.ret
        /\ (last.out.errors # << >>) = CloseFailed
        /\ CloseFailed =>
               last.out.errors = <<"failed to send vacation response">>

\* A commit whose session did not close: an error and success.
C33_Witness ==
    /\ CloseFailed
    /\ last.out.ret
    /\ last.out.errors # << >>
    /\ phase = "done"

\* The commit sent a reply.
ReplySent == VacationCommitted /\ last.out.smtp # << >>

\* The subject the reply is meant to have: the :subject value when the
\* command gives one that is not empty, else "Auto: " and the first Subject
\* header of the message, else "Automated reply".
WantedSubject ==
    IF last.ctx.subject # NULL /\ last.ctx.subject # << >>
    THEN last.ctx.subject
    ELSE IF HeadersFound(last.msgdata, "subject") # << >>
    THEN <<"A","u","t","o",":"," ">> \o HeadersFound(last.msgdata, "subject")[1]
    ELSE <<"A","u","t","o","m","a","t","e","d"," ","r","e","p","l","y">>

\* The From of the reply is the :from value when it is not empty and else
\* the recipient address; the reply goes to the return path.
ReplyAddresses ==
    LET r == last.out.smtp[1] IN
    /\ r.from = IF last.ctx.from # NULL /\ last.ctx.from # << >>
                THEN last.ctx.from ELSE last.msgdata.to_address
    /\ r.to = last.msgdata.return_path
    /\ r.rcpt = last.msgdata.return_path

C34_WitnessLongSubject ==
    /\ ReplySent
    /\ last.ctx.subject # NULL
    /\ Len(last.ctx.subject) = 257

\* A reply to a message whose Subject lookup fails, from a command with an
\* empty :subject: "Automated reply".
C34_WitnessNoSubject ==
    /\ ReplySent
    /\ last.ctx.subject = << >>
    /\ "subject" \in last.msgdata.mail.fail
    /\ last.out.smtp[1].subject =
           <<"A","u","t","o","m","a","t","e","d"," ","r","e","p","l","y">>

\* A reply with the :from address of the command as its From.
C34_WitnessFrom ==
    /\ ReplySent
    /\ last.ctx.from # NULL
    /\ last.out.smtp[1].from = last.ctx.from
    /\ last.out.smtp[1].from # last.msgdata.to_address

\* The SETFLAG operation has executed.
SetflagExecuted == imapflags.state \in {"done", "failed"}

\* f is one of the words of the flag string s.
WordOf(f, s) ==
    \E i \in 1..Len(s) :
        /\ i + Len(f) - 1 <= Len(s)
        /\ SubSeq(s, i, i + Len(f) - 1) = f
        /\ i = 1 \/ s[i - 1] = " "
        /\ i + Len(f) > Len(s) \/ s[i + Len(f)] = " "

\* The flags the flag list of the command names.
FlagsOfList ==
    LET items == imapflags.code.flag_list.items IN
    { f \in { flag_seen, flag_answered, flag_flagged } :
        \E i \in 1..Len(items) : items[i].ok /\ WordOf(f, items[i].str) }

\* The current flags: those of the variable the command names, else the
\* internal flag set.
CurrentFlags ==
    IF imapflags.code.variable.kind = "variable"
    THEN imapflags.flags.variables[imapflags.code.variable.index]
    ELSE imapflags.flags.internal

\* The operands cannot be read, or an item of the flag list cannot.
SetflagUnreadable ==
    \/ imapflags.code.variable.kind = "corrupt"
    \/ ~imapflags.code.flag_list.ok
    \/ \E i \in 1..Len(imapflags.code.flag_list.items) :
           ~imapflags.code.flag_list.items[i].ok

\* C35: after setflag executed with a flag list, the current flags (the
\* internal flag set, or the variable the command names) are exactly the
\* flags of that list, and the operation reports failure exactly when its
\* operands or an item of the list cannot be read.
C35_SetflagSetsFlagsOfList ==
    SetflagExecuted =>
        /\ (imapflags.state = "failed") = SetflagUnreadable
        /\ imapflags.state = "done" => CurrentFlags = FlagsOfList

=============================================================================
